---- MODULE Spec2Model ----
(***************************************************************************)
(* radscan: film-dosimetry pipeline.                                       *)
(*   radscan/image.py        RSImage (multi-scan averaging, ROI statistics)*)
(*   radscan/netod.py        NetOD.simple / NetOD.calc                     *)
(*   radscan/calibration.py  Calibration (fit, dose curve, save, load)     *)
(*   radscan/workflow.py     analyze_simple_roi, analyze_simple_image,     *)
(*                           analyze_roi, analyze_image                    *)
(*                                                                         *)
(* Numbers.  numpy float64 values are modelled exactly over the reals:     *)
(*   [k |-> "rat", num, den]   a rational in lowest terms, den > 0         *)
(*   [k |-> "nan"], [k |-> "inf"], [k |-> "ninf"]   IEEE specials          *)
(*   [k |-> "log10", of |-> r] log10 of a positive rational r that is not  *)
(*                             a power of ten (a power of ten gives a rat) *)
(*   [k |-> "surd", rads, den] (sqrt(rads[1]) + ... + sqrt(rads[n])) / den *)
(*   [k |-> "func", a, b, c, of] a*x + b*x^c at a non-rational x           *)
(*   [k |-> "sqrt_ln10", of |-> q] sqrt(q) / ln(10) for a rational q > 0   *)
(* Samples of a raster are held as rats; dtype tells uint16 from float64.  *)
(***************************************************************************)
EXTENDS Integers, Sequences, FiniteSets, TLC

VARIABLES
    tiffs,   \* TIFF files on disk: path -> [image, metadata]
    pkls,    \* calibration files on disk: path -> pickled payload
    images,  \* the RSImage objects the caller holds: name -> object
    calib,   \* the Calibration object the caller holds, or None
    ret      \* the outcome of the last call the caller made

vars == <<tiffs, pkls, images, calib, ret>>

(***************************************************************************)
(* Python outcomes: a call either returns a value or raises.               *)
(***************************************************************************)
None == [t |-> "None"]

Ok(v) == [ok |-> TRUE, val |-> v]

Raise(type, msg, roi) ==
    [ok |-> FALSE, err |-> [type |-> type, msg |-> msg, roi |-> roi]]

(***************************************************************************)
(* Exact arithmetic for float64 values.                                    *)
(***************************************************************************)
Abs(n) == IF n < 0 THEN -n ELSE n

Min2(a, b) == IF a <= b THEN a ELSE b

Max2(a, b) == IF a >= b THEN a ELSE b

RECURSIVE GCD(_, _)
GCD(a, b) == IF b = 0 THEN a ELSE GCD(b, a % b)

\* n/d in lowest terms, d # 0
Rat(n, d) ==
    LET g == GCD(Abs(n), Abs(d))
        s == IF d < 0 THEN -1 ELSE 1
    IN  [k |-> "rat", num |-> (s * n) \div g, den |-> (s * d) \div g]

NaN == [k |-> "nan"]

Inf == [k |-> "inf"]

NInf == [k |-> "ninf"]

\* float(n) of a Python or numpy integer
Float(n) == Rat(n, 1)

IsRat(x) == x.k = "rat"

\* x + y on float64
add(x, y) ==
    IF IsRat(x) /\ IsRat(y) THEN Rat(x.num * y.den + y.num * x.den, x.den * y.den)
    ELSE IF x.k = "nan" \/ y.k = "nan" THEN NaN
    ELSE IF IsRat(x) THEN y
    ELSE IF IsRat(y) THEN x
    ELSE IF x.k = y.k THEN x ELSE NaN

\* -x on float64
negative(x) ==
    IF IsRat(x) THEN Rat(-x.num, x.den)
    ELSE IF x.k = "inf" THEN NInf
    ELSE IF x.k = "ninf" THEN Inf
    ELSE IF x.k = "log10" THEN [k |-> "log10", of |-> Rat(x.of.den, x.of.num)]
    ELSE NaN

\* x - y on float64
subtract(x, y) == add(x, negative(y))

\* x * y on float64 (finite operands; a special operand gives nan/inf by sign)
multiply(x, y) ==
    IF IsRat(x) /\ IsRat(y) THEN Rat(x.num * y.num, x.den * y.den)
    ELSE IF x.k = "nan" \/ y.k = "nan" THEN NaN
    ELSE LET sx == IF IsRat(x) THEN x.num ELSE IF x.k = "inf" THEN 1 ELSE -1
             sy == IF IsRat(y) THEN y.num ELSE IF y.k = "inf" THEN 1 ELSE -1
         IN  IF sx = 0 \/ sy = 0 THEN NaN
             ELSE IF (sx > 0) = (sy > 0) THEN Inf ELSE NInf

\* x / y on numpy float64: division by zero gives inf or nan, never raises
true_divide(x, y) ==
    IF IsRat(x) /\ IsRat(y)
    THEN IF y.num # 0 THEN Rat(x.num * y.den, x.den * y.num)
         ELSE IF x.num > 0 THEN Inf
         ELSE IF x.num < 0 THEN NInf
         ELSE NaN
    ELSE IF x.k = "nan" \/ y.k = "nan" THEN NaN
    ELSE IF IsRat(x) THEN Float(0)                \* finite / +-inf
    ELSE IF IsRat(y)
         THEN IF (y.num >= 0) = (x.k = "inf") THEN Inf ELSE NInf
    ELSE NaN                                      \* inf / inf

\* x * x on float64
square(x) == multiply(x, x)

\* x <= y on finite float64 values
less_equal(x, y) == x.num * y.den <= y.num * x.den

RECURSIVE SumF(_)
SumF(s) == IF s = <<>> THEN Float(0) ELSE add(Head(s), SumF(Tail(s)))

RECURSIVE SumSqF(_)
SumSqF(s) ==
    IF s = <<>> THEN Float(0) ELSE add(multiply(Head(s), Head(s)), SumSqF(Tail(s)))

\* np.mean of an array or list of finite samples: the sum divided by the
\* count; nan (with a warning, no exception) when it is empty
np_mean(a) == true_divide(SumF(a), Float(Len(a)))

\* np.min / np.max of a non-empty array or list of finite samples
np_min(a) ==
    CHOOSE m \in {a[i] : i \in 1..Len(a)} : \A i \in 1..Len(a) : less_equal(m, a[i])

np_max(a) ==
    CHOOSE m \in {a[i] : i \in 1..Len(a)} : \A i \in 1..Len(a) : less_equal(a[i], m)

\* np.std(a, ddof=1) / np.sqrt(np.size(a)): the standard error of the mean,
\* sqrt(var / n) with var the Bessel-corrected variance; nan when n <= 1
np_stderr(a) ==
    IF Len(a) <= 1 THEN NaN
    ELSE [k |-> "surd",
          rads |-> <<true_divide(subtract(multiply(Float(Len(a)), SumSqF(a)),
                                          square(SumF(a))),
                                 Float(Len(a) * Len(a) * (Len(a) - 1)))>>,
          den |-> 1]

RECURSIVE Rads(_)
Rads(s) == IF s = <<>> THEN <<>> ELSE Head(s).rads \o Rads(Tail(s))

\* np.mean of a list of standard errors: nan if any is nan
np_mean_se(a) ==
    IF \E i \in 1..Len(a) : a[i].k = "nan" THEN NaN
    ELSE [k |-> "surd", rads |-> Rads(a), den |-> Len(a)]

(***************************************************************************)
(* Rasters: shape = <<height, width, channels>>, px[<<y, x, c>>] 0-based.  *)
(***************************************************************************)
\* the indices start:stop selects on an axis of length n (Python slicing)
PySlice(start, stop, n) ==
    LET s == IF start < 0 THEN Max2(0, n + start) ELSE Min2(start, n)
        e == IF stop < 0 THEN Max2(0, n + stop) ELSE Min2(stop, n)
    IN  [lo |-> s, len |-> Max2(0, e - s)]

\* self.image[ymin:ymax, xmin:xmax, :][:, :, channel], flattened row by row
Crop(image, roi, channel) ==
    LET cols == PySlice(roi[1], roi[2], image.shape[2])
        rows == PySlice(roi[3], roi[4], image.shape[1])
    IN  [i \in 1..(rows.len * cols.len) |->
            image.px[<<rows.lo + ((i - 1) \div cols.len),
                       cols.lo + ((i - 1) % cols.len), channel>>]]

(***************************************************************************)
(* RSImage (radscan/image.py).  An object is                               *)
(*   [fn, rois, image, metadata]; image = [shape, dtype, px].              *)
(***************************************************************************)
Positions(shape) == (0..(shape[1] - 1)) \X (0..(shape[2] - 1)) \X (0..(shape[3] - 1))

\* np.mean(np.stack(images), axis=0): fails unless there is at least one
\* array and all arrays share one shape; the result is float64
\* variant: the sum without the division by the number of arrays
StackMean_sum(imgs) ==
    IF Len(imgs) = 0
    THEN Raise("ValueError", "need at least one array to stack", <<>>)
    ELSE IF \E i \in 1..Len(imgs) : imgs[i].shape # imgs[1].shape
    THEN Raise("ValueError", "all input arrays must have the same shape", <<>>)
    ELSE Ok([shape |-> imgs[1].shape,
             dtype |-> "float64",
             px |-> [p \in Positions(imgs[1].shape) |->
                        SumF([i \in 1..Len(imgs) |-> imgs[i].px[p]])]])

StackMean(imgs) ==
    IF Len(imgs) = 0
    THEN Raise("ValueError", "need at least one array to stack", <<>>)
    ELSE IF \E i \in 1..Len(imgs) : imgs[i].shape # imgs[1].shape
    THEN Raise("ValueError", "all input arrays must have the same shape", <<>>)
    ELSE Ok([shape |-> imgs[1].shape,
             dtype |-> "float64",
             px |-> [p \in Positions(imgs[1].shape) |->
                        np_mean([i \in 1..Len(imgs) |-> imgs[i].px[p]])]])

\* RSImage._load_and_average_images(file_list) against the files on disk
\* variant: metadata of the last file
_load_and_average_images_last(disk, file_list) ==
    LET imgs == [i \in 1..Len(file_list) |-> disk[file_list[i]].image]
        average_image == StackMean(imgs)
    IN  IF ~average_image.ok THEN average_image
        ELSE Ok(<<average_image.val, disk[file_list[Len(file_list)]].metadata>>)

_load_and_average_images(disk, file_list) ==
    LET imgs == [i \in 1..Len(file_list) |-> disk[file_list[i]].image]
        average_image == StackMean(imgs)
    IN  IF ~average_image.ok THEN average_image
        ELSE Ok(<<average_image.val, disk[file_list[1]].metadata>>)

\* RSImage(fn, rois): fn is [t |-> "str", v |-> path] or [t |-> "list", v |-> paths]
RSImage(disk, fn, rois) ==
    LET self_rois == IF rois # None THEN rois.v ELSE <<>>
    IN  IF fn.t = "list"
        THEN LET r == _load_and_average_images(disk, fn.v)
             IN  IF ~r.ok THEN r
                 ELSE Ok([fn |-> fn, rois |-> self_rois,
                          image |-> r.val[1], metadata |-> r.val[2]])
        ELSE Ok([fn |-> fn, rois |-> self_rois,
                 image |-> disk[fn.v].image, metadata |-> disk[fn.v].metadata])

\* the statistics of the selected samples _imc
\* (np.min of an empty selection raises; np.mean and np.std only warn)
Stats(_imc) ==
    IF Len(_imc) = 0
    THEN Raise("ValueError",
               "zero-size array to reduction operation minimum which has no identity",
               <<>>)
    ELSE Ok(<<np_mean(_imc), np_stderr(_imc), np_min(_imc), np_max(_imc)>>)

\* one pass of the loop of RSImage.analyze over roi
RoiStat(self, roi, channel) ==
    IF roi[1] < 0 \/ roi[2] > self.image.shape[2]
       \/ roi[3] < 0 \/ roi[4] > self.image.shape[1]
    THEN Raise("ValueError", "ROI is out of image bounds.", roi)
    ELSE IF channel >= self.image.shape[3]
    THEN Raise("IndexError", "index is out of bounds for axis 2", <<>>)
    ELSE Stats(Crop(self.image, roi, channel))

\* the single=True tail of RSImage.analyze
\* variant: the first region's tuple instead of the pooled one
Pooled_first(results) == results[1]

\* variant: the minimum taken over the means
Pooled_minOfMeans(results) ==
    <<np_mean([i \in 1..Len(results) |-> results[i][1]]),
      np_mean_se([i \in 1..Len(results) |-> results[i][2]]),
      np_min([i \in 1..Len(results) |-> results[i][1]]),
      np_max([i \in 1..Len(results) |-> results[i][4]])>>

Pooled(results) ==
    <<np_mean([i \in 1..Len(results) |-> results[i][1]]),
      np_mean_se([i \in 1..Len(results) |-> results[i][2]]),
      np_min([i \in 1..Len(results) |-> results[i][3]]),
      np_max([i \in 1..Len(results) |-> results[i][4]])>>

\* what the loop of RSImage.analyze comes to, stat[i] being the outcome of
\* its pass over the i-th region: the first failure, or every result
Results(stat, single) ==
    IF \E i \in DOMAIN stat : ~stat[i].ok
    THEN stat[CHOOSE i \in DOMAIN stat :
                 ~stat[i].ok /\ \A j \in DOMAIN stat : ~stat[j].ok => i <= j]
    ELSE IF single THEN Ok(Pooled([i \in DOMAIN stat |-> stat[i].val]))
    ELSE Ok([i \in DOMAIN stat |-> stat[i].val])

\* RSImage.analyze from line 105 on
\* variant: an empty list is aggregated to an empty result
AnalyzeRois_empty_result(self, rois_to_analyze, channel, single) ==
    IF Len(rois_to_analyze) = 0
    THEN IF single THEN Ok(<<NaN, NaN, NaN, NaN>>) ELSE Ok(<<>>)
    ELSE Results([i \in 1..Len(rois_to_analyze) |->
                     RoiStat(self, rois_to_analyze[i], channel)], single)

AnalyzeRois(self, rois_to_analyze, channel, single) ==
    IF Len(rois_to_analyze) = 0
    THEN Raise("ValueError", "No ROIs provided or available in self.rois.", <<>>)
    ELSE Results([i \in 1..Len(rois_to_analyze) |->
                     RoiStat(self, rois_to_analyze[i], channel)], single)

\* RSImage.analyze(self, rois, channel, single); rois is None or [t |-> "list", v]
analyze(self, rois, channel, single) ==
    AnalyzeRois(self, IF rois # None THEN rois.v ELSE self.rois, channel, single)

(***************************************************************************)
(* NetOD (radscan/netod.py).  Scalar arguments are float64 values, as      *)
(* RSImage.analyze returns them, so a division by zero gives inf or nan    *)
(* and raises nothing.                                                     *)
(***************************************************************************)
RECURSIVE Pow(_, _)
Pow(b, e) == IF e = 0 THEN 1 ELSE b * Pow(b, e - 1)

\* the exponent j with n = 10^j, or -1 when the positive integer n is no power of ten
RECURSIVE Log10Int(_)
Log10Int(n) ==
    IF n = 1 THEN 0
    ELSE IF n % 10 # 0 THEN -1
    ELSE LET j == Log10Int(n \div 10) IN IF j < 0 THEN -1 ELSE j + 1

\* np.log10 on float64: -inf at 0, nan below 0, no exception
log10(x) ==
    IF x.k = "nan" \/ x.k = "ninf" THEN NaN
    ELSE IF x.k = "inf" THEN Inf
    ELSE IF x.num < 0 THEN NaN
    ELSE IF x.num = 0 THEN NInf
    ELSE IF x.den = 1 /\ Log10Int(x.num) >= 0 THEN Float(Log10Int(x.num))
    ELSE IF x.num = 1 /\ Log10Int(x.den) >= 0 THEN Float(-Log10Int(x.den))
    ELSE [k |-> "log10", of |-> x]

IsFinite(x) == x.k = "rat" \/ x.k = "log10"

\* 10^x for a finite value log10 returned
Exp10(x) ==
    IF x.k = "log10" THEN x.of
    ELSE IF x.num >= 0 THEN Rat(Pow(10, x.num), 1)
    ELSE Rat(1, Pow(10, -x.num))

\* np.log10(p) - np.log10(q) given the two logarithms: log10(p / q) when
\* both are finite, IEEE rules otherwise
log_subtract(x, y) ==
    IF IsFinite(x) /\ IsFinite(y) THEN log10(true_divide(Exp10(x), Exp10(y)))
    ELSE subtract(IF IsFinite(x) THEN Float(0) ELSE x,
                  IF IsFinite(y) THEN Float(0) ELSE y)

\* dn of NetOD.simple(pvb, pva, spvb, spva)
simple_dn(pvb, pva) == log10(true_divide(pvb, pva))

\* dn of NetOD.calc(pvb, pva, pvcb, pvca, pvbk, ...)
calc_dn(pvb, pva, pvcb, pvca, pvbk) ==
    LET pvb_bk == subtract(pvb, pvbk)
        pva_bk == subtract(pva, pvbk)
        pvcb_bk == subtract(pvcb, pvbk)
        pvca_bk == subtract(pvca, pvbk)
    IN  log_subtract(log10(true_divide(pvb_bk, pva_bk)),
                     log10(true_divide(pvcb_bk, pvca_bk)))

\* (1.0 / np.log(10.0)) * np.sqrt(q) for a sum of squares q: 0 at 0,
\* [k |-> "sqrt_ln10", of |-> q] standing for sqrt(q) / ln(10) otherwise
sqrt_over_ln10(q) ==
    IF IsRat(q)
    THEN IF q.num = 0 THEN Float(0)
         ELSE IF q.num < 0 THEN NaN
         ELSE [k |-> "sqrt_ln10", of |-> q]
    ELSE IF q.k = "inf" THEN Inf
    ELSE NaN

\* a float64 array of the given shape
ndarray(shape, px) == [shape |-> shape, dtype |-> "float64", px |-> px]

\* numpy operands are scalars or arrays; an operation between a scalar and
\* an array, or on an array, acts sample by sample
IsArray(x) == "px" \in DOMAIN x

At(x, p) == IF IsArray(x) THEN x.px[p] ELSE x

Shape2(x, y) == IF IsArray(x) THEN x.shape ELSE y.shape

\* x / y
np_true_divide(x, y) ==
    IF IsArray(x) \/ IsArray(y)
    THEN ndarray(Shape2(x, y),
                 [p \in Positions(Shape2(x, y)) |-> true_divide(At(x, p), At(y, p))])
    ELSE true_divide(x, y)

\* x + y
np_add(x, y) ==
    IF IsArray(x) \/ IsArray(y)
    THEN ndarray(Shape2(x, y), [p \in Positions(Shape2(x, y)) |-> add(At(x, p), At(y, p))])
    ELSE add(x, y)

\* x - y
np_subtract(x, y) ==
    IF IsArray(x) \/ IsArray(y)
    THEN ndarray(Shape2(x, y),
                 [p \in Positions(Shape2(x, y)) |-> subtract(At(x, p), At(y, p))])
    ELSE subtract(x, y)

\* x * y
np_multiply(x, y) ==
    IF IsArray(x) \/ IsArray(y)
    THEN ndarray(Shape2(x, y),
                 [p \in Positions(Shape2(x, y)) |-> multiply(At(x, p), At(y, p))])
    ELSE multiply(x, y)

\* x ** 2
np_square(x) ==
    IF IsArray(x) THEN ndarray(x.shape, [p \in Positions(x.shape) |-> square(x.px[p])])
    ELSE square(x)

\* variant: one sample at or below zero spoils the whole array
np_log10_all_or_nothing(x) ==
    IF IsArray(x)
    THEN ndarray(x.shape,
                 [p \in Positions(x.shape) |->
                     IF \E q \in Positions(x.shape) : ~IsRat(x.px[q]) \/ x.px[q].num <= 0
                     THEN NaN ELSE log10(x.px[p])])
    ELSE log10(x)

\* np.log10(x)
np_log10(x) ==
    IF IsArray(x) THEN ndarray(x.shape, [p \in Positions(x.shape) |-> log10(x.px[p])])
    ELSE log10(x)

\* x - y for two results of np.log10
np_log_subtract(x, y) ==
    IF IsArray(x) \/ IsArray(y)
    THEN ndarray(Shape2(x, y),
                 [p \in Positions(Shape2(x, y)) |-> log_subtract(At(x, p), At(y, p))])
    ELSE log_subtract(x, y)

\* (1.0 / np.log(10.0)) * np.sqrt(q)
np_sqrt_over_ln10(q) ==
    IF IsArray(q) THEN ndarray(q.shape, [p \in Positions(q.shape) |-> sqrt_over_ln10(q.px[p])])
    ELSE sqrt_over_ln10(q)

\* variant: the ratio taken the other way round
NetOD_simple_inverted(pvb, pva, spvb, spva) ==
    <<np_log10(np_true_divide(pva, pvb)),
      np_sqrt_over_ln10(np_add(np_square(np_true_divide(spvb, pvb)),
                               np_square(np_true_divide(spva, pva))))>>

\* variant: the uncertainty of pva left out
NetOD_simple_no_spva(pvb, pva, spvb, spva) ==
    <<np_log10(np_true_divide(pvb, pva)),
      np_sqrt_over_ln10(np_square(np_true_divide(spvb, pvb)))>>

\* NetOD.simple(pvb, pva, spvb, spva): (dn, sn)
NetOD_simple(pvb, pva, spvb, spva) ==
    <<np_log10(np_true_divide(pvb, pva)),
      np_sqrt_over_ln10(np_add(np_square(np_true_divide(spvb, pvb)),
                               np_square(np_true_divide(spva, pva))))>>

\* l1 and l3 of NetOD.calc: (s1 / v1) ** 2 + (s2 / v2) ** 2
rel2(s1, v1, s2, v2) ==
    np_add(np_square(np_true_divide(s1, v1)), np_square(np_true_divide(s2, v2)))

\* l2 and l4 of NetOD.calc: ((b - a) ** 2) / (b_bk * a_bk) ** 2 * spvbk ** 2
bk2(b, a, b_bk, a_bk, spvbk) ==
    np_multiply(np_true_divide(np_square(np_subtract(b, a)),
                               np_square(np_multiply(b_bk, a_bk))),
                np_square(spvbk))

\* variant: the control ratio taken against the exposed film
calc_bk_wrong_control(pvb, pva, pvcb, pvca, pvb_bk, pva_bk, pvcb_bk, pvca_bk, spvb, spva, spvcb, spvca, spvbk) ==
    <<np_log_subtract(np_log10(np_true_divide(pvb_bk, pva_bk)),
                      np_log10(np_true_divide(pvcb_bk, pva_bk))),
      np_sqrt_over_ln10(np_add(np_add(np_add(rel2(spvb, pvb_bk, spva, pva_bk),
                                             bk2(pvb, pva, pvb_bk, pva_bk, spvbk)),
                                      rel2(spvcb, pvcb_bk, spvca, pvca_bk)),
                               bk2(pvcb, pvca, pvcb_bk, pvca_bk, spvbk)))>>

\* NetOD.calc from line 118 on, given the background-subtracted values
calc_bk(pvb, pva, pvcb, pvca, pvb_bk, pva_bk, pvcb_bk, pvca_bk, spvb, spva, spvcb, spvca, spvbk) ==
    <<np_log_subtract(np_log10(np_true_divide(pvb_bk, pva_bk)),
                      np_log10(np_true_divide(pvcb_bk, pvca_bk))),
      np_sqrt_over_ln10(np_add(np_add(np_add(rel2(spvb, pvb_bk, spva, pva_bk),
                                             bk2(pvb, pva, pvb_bk, pva_bk, spvbk)),
                                      rel2(spvcb, pvcb_bk, spvca, pvca_bk)),
                               bk2(pvcb, pvca, pvcb_bk, pvca_bk, spvbk)))>>

\* NetOD.calc(pvb, pva, pvcb, pvca, pvbk, spvb, spva, spvcb, spvca, spvbk): (dn, sn)
NetOD_calc(pvb, pva, pvcb, pvca, pvbk, spvb, spva, spvcb, spvca, spvbk) ==
    calc_bk(pvb, pva, pvcb, pvca, np_subtract(pvb, pvbk), np_subtract(pva, pvbk), np_subtract(pvcb, pvbk), np_subtract(pvca, pvbk), spvb, spva, spvcb, spvca, spvbk)

(***************************************************************************)
(* Calibration (radscan/calibration.py).                                   *)
(***************************************************************************)
\* The fit parameters a, b, c are float64 values; c is a whole number in
\* every Calibration of the model, so that np.power stays exact.

\* np.power(x, c) for a rational x and a whole-number exponent c
power(x, c) ==
    IF c.num >= 0 THEN Rat(Pow(x.num, c.num), Pow(x.den, c.num))
    ELSE IF x.num = 0 THEN Inf
    ELSE Rat(Pow(x.den, -c.num), Pow(x.num, -c.num))

\* variant: the power term taken away instead of added
func_minus(netOD, a, b, c) ==
    IF IsRat(netOD)
    THEN subtract(multiply(a, netOD), multiply(b, power(netOD, c)))
    ELSE IF netOD.k = "nan" THEN NaN
    ELSE [k |-> "func", a |-> a, b |-> b, c |-> c, of |-> netOD]

\* Calibration.func(netOD, a, b, c) = a * netOD + b * np.power(netOD, c)
func(netOD, a, b, c) ==
    IF IsRat(netOD)
    THEN add(multiply(a, netOD), multiply(b, power(netOD, c)))
    ELSE IF netOD.k = "nan" THEN NaN
    ELSE [k |-> "func", a |-> a, b |-> b, c |-> c, of |-> netOD]

\* variant: the parameters unpacked in another order
dose_unpacked_b_first(self, netOD) == func(netOD, self.fitparams[2], self.fitparams[1], self.fitparams[3])

\* Calibration.dose(self, netOD) for a scalar netOD
dose(self, netOD) == func(netOD, self.fitparams[1], self.fitparams[2], self.fitparams[3])

\* length of func(xdata, *p) - ydata under numpy broadcasting of two
\* one-dimensional arrays, -1 when the shapes do not broadcast
ResidualLen(nx, ny) ==
    IF nx = ny THEN nx
    ELSE IF nx = 1 THEN ny
    ELSE IF ny = 1 THEN nx
    ELSE -1

\* the solver's outcome: ier in 1..4 with the parameters x, or another ier
Found(x) == [ier |-> 1, x |-> x]

NotFound == [ier |-> 5]

\* scipy.optimize.curve_fit(self.func, xdata, ydata, p0=p0) with the default
\* method 'lm'; solution is what the least-squares solver ends with
curve_fit(xdata, ydata, p0, solution) ==
    IF Len(ydata) = 0 THEN Raise("ValueError", "ydata must not be empty!", <<>>)
    ELSE IF Len(ydata) # 1 /\ Len(p0) > Len(ydata)
    THEN Raise("TypeError", "The number of func parameters must not exceed the number of data points", <<>>)
    ELSE IF ResidualLen(Len(xdata), Len(ydata)) = -1
    THEN Raise("ValueError", "operands could not be broadcast together", <<>>)
    ELSE IF Len(p0) > ResidualLen(Len(xdata), Len(ydata))
    THEN Raise("TypeError", "Improper input: func input vector length N must not exceed func output vector length M", <<>>)
    ELSE IF solution.ier \notin 1..4
    THEN Raise("RuntimeError", "Optimal parameters not found", <<>>)
    ELSE Ok(solution.x)

\* digits of a whole number below 1000, zero-padded to three places
Digits3(n) == ToString(n \div 100) \o ToString((n \div 10) % 10) \o ToString(n % 10)

\* the whole number nearest to n/d for n >= 0, d > 0, ties to the even one
RoundHalfEven(n, d) ==
    IF 2 * (n % d) > d THEN (n \div d) + 1
    ELSE IF 2 * (n % d) < d THEN n \div d
    ELSE (n \div d) + ((n \div d) % 2)

\* digits of n thousandths
Thousandths(n) == ToString(n \div 1000) \o "." \o Digits3(n % 1000)

\* f"{x:.3f}" of a finite float
format_3f(x) ==
    (IF x.num < 0 THEN "-" ELSE "") \o Thousandths(RoundHalfEven(1000 * Abs(x.num), x.den))

\* variant: the label leaves out the leading word
fitstr_without_fit(fitparams) ==
    "Dw = " \o format_3f(fitparams[1]) \o " * netOD + " \o format_3f(fitparams[2])
        \o " * netOD^" \o format_3f(fitparams[3])

\* self.fitstr as Calibration.__init__ sets it
fitstr(fitparams) ==
    "Fit Dw = " \o format_3f(fitparams[1]) \o " * netOD + " \o format_3f(fitparams[2])
        \o " * netOD^" \o format_3f(fitparams[3])

\* the object Calibration.__init__ leaves once the fit is there
Fitted(ds, nods, lot, date, channel, fitparams) ==
    [class |-> [module |-> "radscan.calibration", name |-> "Calibration"],
     ds |-> ds, nods |-> nods, lot |-> lot, date |-> date, channel |-> channel,
     fitparams |-> fitparams, fitstr |-> fitstr(fitparams)]

\* Calibration(ds, nods, lot, date, channel, guess)
Calibration(ds, nods, lot, date, channel, guess, solution) ==
    IF curve_fit(nods, ds, guess, solution).ok
    THEN Ok(Fitted(ds, nods, lot, date, channel, curve_fit(nods, ds, guess, solution).val))
    ELSE curve_fit(nods, ds, guess, solution)

\* what pickle.dump(self, f) writes: the class tag and the instance __dict__
Pickled(self) ==
    [payload |-> "pickle", module |-> self.class.module, name |-> self.class.name,
     state |-> [f \in DOMAIN self \ {"class"} |-> self[f]]]

\* the file name Calibration.save writes to
SaveName(self, filename) ==
    IF filename = None \/ filename.v = ""
    THEN "ebt_calibration_lot" \o self.lot \o "_" \o self.channel \o ".pkl"
    ELSE filename.v

\* variant: the label is not written
save_without_fitstr(self, disk, filename) ==
    (SaveName(self, filename) :> [Pickled(self) EXCEPT !.state = [f \in DOMAIN self \ {"class", "fitstr"} |-> self[f]]]) @@ disk

\* Calibration.save(self, filename): the files on disk afterwards
save(self, disk, filename) == (SaveName(self, filename) :> Pickled(self)) @@ disk

\* the classes an import can reach: module -> names
Importable ==
    [m \in {"radscan.calibration", "collections"} |->
        IF m = "collections" THEN {"OrderedDict"} ELSE {"Calibration", "CustomUnpickler"}]

\* pickle.Unpickler.find_class(module, name): import the module, get the name
Unpickler_find_class(module, name) ==
    IF module \notin DOMAIN Importable THEN Raise("ModuleNotFoundError", module, <<>>)
    ELSE IF name \notin Importable[module] THEN Raise("AttributeError", module, <<>>)
    ELSE Ok([module |-> module, name |-> name])

\* variant: the module tag is looked up as it stands
find_class_as_tagged(module, name) == Unpickler_find_class(module, name)

\* CustomUnpickler.find_class(module, name)
find_class(module, name) ==
    Unpickler_find_class(IF module = "calibration" THEN "radscan.calibration" ELSE module, name)

\* CustomUnpickler(f).load() on the content of a file: a byte stream that is
\* no pickle ("corrupt"), a file cut to nothing ("empty"), or a record
Unpickle(record, filename) ==
    IF record.payload = "corrupt" THEN Raise("UnpicklingError", filename, <<>>)
    ELSE IF record.payload = "empty" THEN Raise("EOFError", filename, <<>>)
    ELSE IF find_class(record.module, record.name).ok
    THEN Ok([class |-> find_class(record.module, record.name).val] @@ record.state)
    ELSE find_class(record.module, record.name)

\* variant: every failure is reported as an unreadable payload
load_one_error_kind(disk, filename) ==
    IF filename \notin DOMAIN disk
    THEN Raise("UnpicklingError", filename, <<>>)
    ELSE Unpickle(disk[filename], filename)

\* Calibration.load(filename) against the files on disk; the two except
\* clauses re-raise what they catch
load(disk, filename) ==
    IF filename \notin DOMAIN disk
    THEN Raise("FileNotFoundError", filename, <<>>)
    ELSE Unpickle(disk[filename], filename)

\* radscan.calibration.load(filename), the module-level function
calibration_load(disk, filename) ==
    IF filename \notin DOMAIN disk
    THEN Raise("FileNotFoundError", filename, <<>>)
    ELSE Unpickle(disk[filename], filename)

(***************************************************************************)
(* Workflows (radscan/workflow.py).  Each returns [out, trace]: the Python *)
(* outcome and, in order, the calls the workflow made before it ended.     *)
(* Image arguments are RSImage objects or None; calibration_file is None   *)
(* or [t |-> "str", v |-> path].                                           *)
(***************************************************************************)
Done(out, trace) == [out |-> out, trace |-> trace]

Ev(e, on) == [e |-> e, on |-> on]

\* Python truth value of a calibration_file argument
Truthy(calibration_file) == calibration_file # None /\ calibration_file.v # ""

\* Calibration.load(calibration_file) if calibration_file else None
\* variant: the calibration file is never loaded
LoadIf_never(disk, calibration_file) == Ok(None)

LoadIf(disk, calibration_file) ==
    IF Truthy(calibration_file) THEN load(disk, calibration_file.v) ELSE Ok(None)

LoadEv(calibration_file) ==
    IF Truthy(calibration_file) THEN <<Ev("Calibration.load", calibration_file.v)>>
    ELSE <<>>

\* image.analyze(...) on an argument that may be None
AnalyzeArg(image, single) ==
    IF image = None
    THEN Raise("AttributeError", "'NoneType' object has no attribute 'analyze'", <<>>)
    ELSE analyze(image, None, 0, single)

\* len(a.rois) != len(b.rois)
\* variant: the counts are never compared
RoiCountsDiffer_never(a, b) == FALSE

RoiCountsDiffer(a, b) == Len(a.rois) # Len(b.rois)

\* zip(a, b): pairs index for index, as long as the shorter list
\* variant: the second list is paired in reverse
zip_crossed(a, b) ==
    [i \in 1..Min2(Len(a), Len(b)) |-> <<a[i], b[Min2(Len(a), Len(b)) + 1 - i]>>]

zip(a, b) == [i \in 1..Min2(Len(a), Len(b)) |-> <<a[i], b[i]>>]

\* "return [calibration.dose(netod) for netod in netod_values] if calibration
\* else netod_values", calibration being the outcome of the load before it
return_list(netod_values, calibration, trace) ==
    IF ~calibration.ok THEN Done(calibration, trace)
    ELSE IF calibration.val # None
    THEN Done(Ok([t |-> "list",
                  v |-> [i \in DOMAIN netod_values |->
                            dose(calibration.val, netod_values[i])]]),
              trace)
    ELSE Done(Ok([t |-> "list", v |-> netod_values]), trace)

\* "return calibration.dose(netod) if calibration else netod" on an array
return_array(netod, calibration, trace) ==
    IF ~calibration.ok THEN Done(calibration, trace)
    ELSE IF calibration.val # None
    THEN Done(Ok([t |-> "ndarray",
                  v |-> ndarray(netod.shape,
                                [p \in Positions(netod.shape) |->
                                    dose(calibration.val, netod.px[p])])]),
              trace)
    ELSE Done(Ok([t |-> "ndarray", v |-> netod]), trace)

\* the calls NetOD.<name> made by a loop over pairs
LoopEv(name, pairs) == [i \in DOMAIN pairs |-> [e |-> name, i |-> i]]

\* analyze_simple_roi from its loop on
simple_roi_loop(disk, pairs, calibration_file, trace) ==
    return_list([i \in DOMAIN pairs |-> simple_dn(pairs[i][1][1], pairs[i][2][1])],
                LoadIf(disk, calibration_file),
                trace \o LoopEv("NetOD.simple", pairs) \o LoadEv(calibration_file))

\* analyze_simple_roi after its two analyze calls
simple_roi_values(disk, pre_values, post_values, calibration_file) ==
    IF ~pre_values.ok THEN Done(pre_values, <<Ev("analyze", "pre_image")>>)
    ELSE IF ~post_values.ok
    THEN Done(post_values, <<Ev("analyze", "pre_image"), Ev("analyze", "post_image")>>)
    ELSE simple_roi_loop(disk, zip(pre_values.val, post_values.val), calibration_file,
                         <<Ev("analyze", "pre_image"), Ev("analyze", "post_image")>>)

\* variant: the calibration is loaded before the images are analysed
analyze_simple_roi_load_first(disk, pre_image, post_image, calibration_file) ==
    IF RoiCountsDiffer(pre_image, post_image)
    THEN Done(Raise("ValueError",
                    "Mismatched ROI counts in pre- and post-irradiation images.", <<>>),
              <<>>)
    ELSE IF ~LoadIf(disk, calibration_file).ok
    THEN Done(LoadIf(disk, calibration_file), LoadEv(calibration_file))
    ELSE simple_roi_values(disk, analyze(pre_image, None, 0, FALSE),
                           analyze(post_image, None, 0, FALSE), calibration_file)

analyze_simple_roi(disk, pre_image, post_image, calibration_file) ==
    IF RoiCountsDiffer(pre_image, post_image)
    THEN Done(Raise("ValueError",
                    "Mismatched ROI counts in pre- and post-irradiation images.", <<>>),
              <<>>)
    ELSE simple_roi_values(disk, analyze(pre_image, None, 0, FALSE),
                           analyze(post_image, None, 0, FALSE), calibration_file)

\* analyze_simple_image after its analyze call
simple_image_values(disk, pre_value, image, calibration_file) ==
    IF ~pre_value.ok THEN Done(pre_value, <<Ev("analyze", "pre_image")>>)
    ELSE return_array(ndarray(image.shape,
                              [p \in Positions(image.shape) |->
                                  simple_dn(pre_value.val[1], image.px[p])]),
                      LoadIf(disk, calibration_file),
                      <<Ev("analyze", "pre_image"), Ev("NetOD.simple", "post_image.image")>>
                          \o LoadEv(calibration_file))

analyze_simple_image(disk, pre_image, post_image, calibration_file) ==
    simple_image_values(disk, analyze(pre_image, None, 0, TRUE), post_image.image,
                        calibration_file)

\* analyze_roi from its loop on
roi_loop(disk, pairs, control_pre, control_post, background, calibration_file, trace) ==
    return_list([i \in DOMAIN pairs |->
                    calc_dn(pairs[i][1][1], pairs[i][2][1], control_pre[1], control_post[1],
                            background[1])],
                LoadIf(disk, calibration_file),
                trace \o LoopEv("NetOD.calc", pairs) \o LoadEv(calibration_file))

\* analyze_roi after its five analyze calls; trace names the calls made
roi_values(disk, pre_values, post_values, control_pre_value, control_post_value, background_value, calibration_file, trace) ==
    IF ~pre_values.ok THEN Done(pre_values, SubSeq(trace, 1, 1))
    ELSE IF ~post_values.ok THEN Done(post_values, SubSeq(trace, 1, 2))
    ELSE IF ~control_pre_value.ok THEN Done(control_pre_value, SubSeq(trace, 1, 3))
    ELSE IF ~control_post_value.ok THEN Done(control_post_value, SubSeq(trace, 1, 4))
    ELSE IF ~background_value.ok THEN Done(background_value, trace)
    ELSE roi_loop(disk, zip(pre_values.val, post_values.val), control_pre_value.val,
                  control_post_value.val, background_value.val, calibration_file, trace)

analyze_roi(disk, pre_image, post_image, control_pre_image, control_post_image, background_image, calibration_file) ==
    IF RoiCountsDiffer(pre_image, post_image) THEN Done(Ok(None), <<>>)
    ELSE IF RoiCountsDiffer(control_pre_image, control_post_image)
    THEN Done(Ok(None), <<>>)
    ELSE roi_values(disk,
                    analyze(pre_image, None, 0, FALSE),
                    analyze(post_image, None, 0, FALSE),
                    analyze(control_pre_image, None, 0, TRUE),
                    analyze(control_post_image, None, 0, TRUE),
                    AnalyzeArg(background_image, TRUE),
                    calibration_file,
                    <<Ev("analyze", "pre_image"), Ev("analyze", "post_image"),
                      Ev("analyze", "control_pre_image"),
                      Ev("analyze", "control_post_image")>>
                        \o IF background_image = None THEN <<>>
                           ELSE <<Ev("analyze", "background_image")>>)

\* NetOD.calc(pre_value, post_image_values, control_pre_value,
\* control_post_value, background_value, spvb, spva, spvcb, spvca, spvbk) as
\* analyze_image calls it: the scalar arguments it is given
CalcEv(pre, control_pre, control_post, background, spva) ==
    [e |-> "NetOD.calc", on |-> "post_image.image",
     args |-> [pvb |-> pre[1], pvcb |-> control_pre[1], pvca |-> control_post[1],
               pvbk |-> background[1], spvb |-> pre[2], spva |-> spva,
               spvcb |-> control_pre[2], spvca |-> control_post[2],
               spvbk |-> background[2]]]

\* analyze_image after its analyze calls; trace names the calls made
image_values(disk, pre, control_pre, control_post, background, image, calibration_file, trace) ==
    IF ~pre.ok THEN Done(pre, SubSeq(trace, 1, 1))
    ELSE IF ~control_pre.ok THEN Done(control_pre, SubSeq(trace, 1, 2))
    ELSE IF ~control_post.ok THEN Done(control_post, SubSeq(trace, 1, 3))
    ELSE IF ~background.ok THEN Done(background, trace)
    ELSE return_array(ndarray(image.shape,
                              [p \in Positions(image.shape) |->
                                  calc_dn(pre.val[1], image.px[p], control_pre.val[1],
                                          control_post.val[1], background.val[1])]),
                      LoadIf(disk, calibration_file),
                      trace \o <<CalcEv(pre.val, control_pre.val, control_post.val,
                                         background.val, Float(0))>>
                          \o LoadEv(calibration_file))

\* variant: without a background image the pre image stands in for it
analyze_image_background_from_pre(disk, pre_image, post_image, control_pre_image, control_post_image, background_image, calibration_file) ==
    image_values(disk,
                 analyze(pre_image, None, 0, TRUE),
                 analyze(control_pre_image, None, 0, TRUE),
                 analyze(control_post_image, None, 0, TRUE),
                 IF background_image # None THEN analyze(background_image, None, 0, TRUE)
                 ELSE analyze(pre_image, None, 0, TRUE),
                 post_image.image,
                 calibration_file,
                 <<Ev("analyze", "pre_image"), Ev("analyze", "control_pre_image"),
                   Ev("analyze", "control_post_image")>>
                     \o IF background_image # None
                        THEN <<Ev("analyze", "background_image")>> ELSE <<>>)

analyze_image(disk, pre_image, post_image, control_pre_image, control_post_image, background_image, calibration_file) ==
    image_values(disk,
                 analyze(pre_image, None, 0, TRUE),
                 analyze(control_pre_image, None, 0, TRUE),
                 analyze(control_post_image, None, 0, TRUE),
                 IF background_image # None THEN analyze(background_image, None, 0, TRUE)
                 ELSE Ok(<<Float(0), Float(0)>>),
                 post_image.image,
                 calibration_file,
                 <<Ev("analyze", "pre_image"), Ev("analyze", "control_pre_image"),
                   Ev("analyze", "control_post_image")>>
                     \o IF background_image # None
                        THEN <<Ev("analyze", "background_image")>> ELSE <<>>)

(***************************************************************************)
(* The caller.  It holds two RSImage objects, attaches region lists to     *)
(* them, calls a workflow or analyze, and drops the outcome before the     *)
(* next call.                                                              *)
(***************************************************************************)
MaxRois == 2

Str(v) == [t |-> "str", v |-> v]

List(v) == [t |-> "list", v |-> v]

\* a uint16 raster of shape <<2, 2, 2>> from its samples in row-major order
Scan(v) ==
    [shape |-> <<2, 2, 2>>, dtype |-> "uint16",
     px |-> [p \in Positions(<<2, 2, 2>>) |-> Float(v[4 * p[1] + 2 * p[2] + p[3] + 1])]]

\* the scans on disk: two passes of the unexposed film, one of the exposed film
Tiffs ==
    [f \in {"pre_1.tif", "pre_2.tif", "post.tif"} |->
        [image |-> CASE f = "pre_1.tif" -> Scan(<<80, 50, 20, 60, 120, 50, 40, 60>>)
                     [] f = "pre_2.tif" -> Scan(<<100, 50, 20, 60, 100, 50, 40, 60>>)
                     [] OTHER -> Scan(<<8, 5, 0, 3, 12, 5, 40, 9>>),
         metadata |-> [ImageDescription |-> f]]]

\* the calibration files on disk
Pkls ==
    [f \in {"cal.pkl", "bad.pkl"} |->
        [payload |-> IF f = "cal.pkl" THEN "pickle" ELSE "corrupt",
         module |-> "radscan.calibration",
         name |-> "Calibration",
         state |-> [ds |-> <<0, 42, 264>>, nods |-> <<0, 1, 2>>, lot |-> "00000000",
                    date |-> "", channel |-> "RED", fitparams |-> <<Float(12), Float(30), Float(3)>>,
                    fitstr |-> "Fit Dw = 12.000 * netOD + 30.000 * netOD^3.000"]]]

ImageNames == {"pre", "post"}

\* (left, right, top, bottom): the two columns of a scan
Regions == {<<0, 1, 0, 2>>, <<1, 2, 0, 2>>}

\* a region that reaches one past the width of a scan
OutOfBounds == <<1, 3, 0, 2>>

RECURSIVE SeqsUpTo(_, _)
SeqsUpTo(S, n) ==
    IF n = 0 THEN {<<>>}
    ELSE LET shorter == SeqsUpTo(S, n - 1)
         IN  shorter \cup {Append(q, x) : q \in shorter, x \in S}

RoiLists ==
    SeqsUpTo(Regions, MaxRois) \cup {<<OutOfBounds>>, <<<<0, 1, 0, 2>>, OutOfBounds>>}

CalArgs == {None, Str("cal.pkl"), Str("missing.pkl"), Str("bad.pkl")}

Idle == [op |-> "idle"]

Arg(name) == IF name = "None" THEN None ELSE images[name]

Init ==
    /\ tiffs = Tiffs
    /\ pkls = Pkls
    /\ images = [n \in ImageNames |->
                    IF n = "pre"
                    THEN RSImage(Tiffs, List(<<"pre_1.tif", "pre_2.tif">>), None).val
                    ELSE RSImage(Tiffs, Str("post.tif"), None).val]
    /\ ret = Idle
    /\ calib = None

\* image.rois = rois
SetRois ==
    /\ ret = Idle
    /\ \E n \in ImageNames, rois \in RoiLists :
           images' = [images EXCEPT ![n].rois = rois]
    /\ UNCHANGED <<tiffs, pkls, calib, ret>>

Returned(op, args, r) == [op |-> op, args |-> args, out |-> r.out, trace |-> r.trace]

CallAnalyze ==
    /\ ret = Idle
    /\ \E n \in ImageNames, rois \in {None, List(<<>>)}, channel \in {0, 1},
          single \in BOOLEAN :
           ret' = Returned("analyze",
                           [self |-> n, rois |-> rois, channel |-> channel, single |-> single],
                           Done(analyze(images[n], rois, channel, single), <<>>))
    /\ UNCHANGED <<tiffs, pkls, images, calib>>

CallSimpleRoi ==
    /\ ret = Idle
    /\ \E pre \in ImageNames, post \in ImageNames, cf \in CalArgs :
           ret' = Returned("analyze_simple_roi",
                           [pre_image |-> pre, post_image |-> post, calibration_file |-> cf],
                           analyze_simple_roi(pkls, images[pre], images[post], cf))
    /\ UNCHANGED <<tiffs, pkls, images, calib>>

\* variant: the optical densities are written into the post raster
CallSimpleImage_in_place ==
    /\ ret = Idle
    /\ \E pre \in ImageNames, post \in ImageNames, cf \in CalArgs :
           /\ ret' = Returned("analyze_simple_image",
                              [pre_image |-> pre, post_image |-> post, calibration_file |-> cf],
                              analyze_simple_image(pkls, images[pre], images[post], cf))
           /\ images' = IF ret'.out.ok
                        THEN [images EXCEPT ![post].image = ret'.out.val.v]
                        ELSE images
    /\ UNCHANGED <<tiffs, pkls, calib>>

CallSimpleImage ==
    /\ ret = Idle
    /\ \E pre \in ImageNames, post \in ImageNames, cf \in CalArgs :
           ret' = Returned("analyze_simple_image",
                           [pre_image |-> pre, post_image |-> post, calibration_file |-> cf],
                           analyze_simple_image(pkls, images[pre], images[post], cf))
    /\ UNCHANGED <<tiffs, pkls, images, calib>>

\* variant: the call leaves the control-pre object holding the post raster
CallRoi_sharing_raster ==
    /\ ret = Idle
    /\ \E pre \in {"pre"}, post \in {"post"}, cpre \in ImageNames,
          cpost \in ImageNames, bk \in ImageNames \cup {"None"}, cf \in CalArgs :
           /\ ret' = Returned("analyze_roi",
                              [pre_image |-> pre, post_image |-> post,
                               control_pre_image |-> cpre, control_post_image |-> cpost,
                               background_image |-> bk, calibration_file |-> cf],
                              analyze_roi(pkls, images[pre], images[post], images[cpre],
                                          images[cpost], Arg(bk), cf))
           /\ images' = [images EXCEPT ![cpre].image = images[post].image]
    /\ UNCHANGED <<tiffs, pkls, calib>>

CallRoi ==
    /\ ret = Idle
    /\ \E pre \in {"pre"}, post \in {"post"}, cpre \in ImageNames,
          cpost \in ImageNames, bk \in ImageNames \cup {"None"}, cf \in CalArgs :
           ret' = Returned("analyze_roi",
                           [pre_image |-> pre, post_image |-> post,
                            control_pre_image |-> cpre, control_post_image |-> cpost,
                            background_image |-> bk, calibration_file |-> cf],
                           analyze_roi(pkls, images[pre], images[post], images[cpre],
                                       images[cpost], Arg(bk), cf))
    /\ UNCHANGED <<tiffs, pkls, images, calib>>

CallImage ==
    /\ ret = Idle
    /\ \E pre \in {"pre"}, post \in {"post"}, cpre \in ImageNames,
          cpost \in ImageNames, bk \in ImageNames \cup {"None"}, cf \in CalArgs :
           ret' = Returned("analyze_image",
                           [pre_image |-> pre, post_image |-> post,
                            control_pre_image |-> cpre, control_post_image |-> cpost,
                            background_image |-> bk, calibration_file |-> cf],
                           analyze_image(pkls, images[pre], images[post], images[cpre],
                                         images[cpost], Arg(bk), cf))
    /\ UNCHANGED <<tiffs, pkls, images, calib>>

\* the caller drops the outcome
Discard ==
    /\ ret # Idle
    /\ ret' = Idle
    /\ UNCHANGED <<tiffs, pkls, images, calib>>

Next ==
    \/ SetRois
    \/ CallAnalyze
    \/ CallSimpleRoi
    \/ CallSimpleImage
    \/ CallRoi
    \/ CallImage
    \/ Discard

Spec == Init /\ [][Next]_vars

(***************************************************************************)
(* RSImage.analyze on its own: every 2 x 2 scan over three sample values   *)
(* (the second channel is the first turned by 180 degrees), analysed over  *)
(* explicit region lists.                                                  *)
(***************************************************************************)
MaxAnalyzeRois == 3

PixelVals == {0, 1, 2}

AnalyzeScans ==
    {[shape |-> <<2, 2, 2>>, dtype |-> "uint16",
      px |-> [p \in Positions(<<2, 2, 2>>) |->
                 Float(IF p[3] = 0 THEN v[<<p[1], p[2]>>] ELSE v[<<1 - p[1], 1 - p[2]>>])]] :
        v \in [(0..1) \X (0..1) -> PixelVals]}

\* two single samples, the bottom row, a region one past the width, an empty
\* region (left = right), and a region with a negative right edge
AnalyzeRegions ==
    {<<0, 1, 0, 1>>, <<1, 2, 0, 1>>, <<0, 2, 1, 2>>,
     <<0, 3, 0, 1>>, <<1, 1, 0, 2>>, <<0, -1, 0, 2>>}

AnalyzeRoiArgs == {None} \cup {List(l) : l \in SeqsUpTo(AnalyzeRegions, MaxAnalyzeRois)}

InitAnalyze ==
    /\ \E scan \in AnalyzeScans :
           /\ tiffs = [f \in {"scan.tif"} |->
                          [image |-> scan, metadata |-> [ImageDescription |-> f]]]
           /\ images = [n \in {"scan"} |-> RSImage(tiffs, Str("scan.tif"), None).val]
    /\ pkls = Pkls
    /\ ret = Idle
    /\ calib = None

CallAnalyzeRois ==
    /\ ret = Idle
    /\ \E rois \in AnalyzeRoiArgs, single \in BOOLEAN :
           ret' = Returned("analyze",
                           [self |-> "scan", rois |-> rois, channel |-> 0, single |-> single],
                           Done(analyze(images["scan"], rois, 0, single), <<>>))
    /\ UNCHANGED <<tiffs, pkls, images, calib>>

NextAnalyze ==
    \/ CallAnalyzeRois
    \/ Discard

SpecAnalyze == InitAnalyze /\ [][NextAnalyze]_vars

(***************************************************************************)
(* RSImage(fn) on its own: two files holding every one-row scan of width   *)
(* one or two, loaded singly or as a list to average.                      *)
(***************************************************************************)
MaxFiles == 2

LoadScans ==
    {[shape |-> <<1, w, 1>>, dtype |-> "uint16",
      px |-> [p \in Positions(<<1, w, 1>>) |-> Float(v[p[2] + 1])]] :
        w \in 1..2, v \in [1..2 -> PixelVals]}

LoadPaths == {"a.tif", "b.tif"}

FnArgs == {Str(f) : f \in LoadPaths} \cup {List(l) : l \in SeqsUpTo(LoadPaths, MaxFiles)}

InitLoad ==
    /\ \E scans \in [LoadPaths -> LoadScans] :
           tiffs = [f \in LoadPaths |->
                       [image |-> scans[f], metadata |-> [ImageDescription |-> f]]]
    /\ pkls = Pkls
    /\ images = [n \in {"img"} |-> None]
    /\ ret = Idle
    /\ calib = None

\* img = RSImage(fn): the name is bound only if the constructor returns
CallRSImage ==
    /\ ret = Idle
    /\ \E fn \in FnArgs :
           LET r == RSImage(tiffs, fn, None)
           IN  /\ images' = IF r.ok THEN [images EXCEPT !["img"] = r.val] ELSE images
               /\ ret' = Returned("RSImage", [fn |-> fn, rois |-> None],
                                  Done(IF r.ok THEN Ok(None) ELSE r, <<>>))
    /\ UNCHANGED <<tiffs, pkls, calib>>

NextLoad ==
    \/ CallRSImage
    \/ Discard

SpecLoad == InitLoad /\ [][NextLoad]_vars

(***************************************************************************)
(* NetOD.simple and NetOD.calc on their own: scalar values 0..MaxPv,       *)
(* uncertainties 0 or 1, and, for pva, also every one-row raster of two    *)
(* such samples.                                                           *)
(***************************************************************************)
MaxPv == 2

Pvs == {Float(n) : n \in 0..MaxPv}

Sigmas == {Float(0), Float(1)}

PvRasters ==
    {[shape |-> <<1, 2, 1>>, dtype |-> "uint16",
      px |-> [p \in Positions(<<1, 2, 1>>) |-> IF p[2] = 0 THEN a ELSE b]] :
        a \in Pvs, b \in Pvs}

InitNetOD ==
    /\ tiffs = <<>>
    /\ pkls = <<>>
    /\ images = <<>>
    /\ ret = Idle
    /\ calib = None

CallNetODSimple ==
    /\ ret = Idle
    /\ \E pvb \in Pvs, pva \in Pvs \cup PvRasters, spvb \in Sigmas, spva \in Sigmas :
           ret' = Returned("NetOD.simple",
                           [pvb |-> pvb, pva |-> pva, spvb |-> spvb, spva |-> spva],
                           Done(Ok(NetOD_simple(pvb, pva, spvb, spva)), <<>>))
    /\ UNCHANGED <<tiffs, pkls, images, calib>>

CallNetODCalc ==
    /\ ret = Idle
    /\ \E pvb \in Pvs, pva \in Pvs, pvcb \in Pvs, pvca \in Pvs, pvbk \in Pvs,
          spvb \in Sigmas, spva \in Sigmas, spvcb \in Sigmas, spvca \in Sigmas,
          spvbk \in Sigmas :
           ret' = Returned("NetOD.calc",
                           [pvb |-> pvb, pva |-> pva, pvcb |-> pvcb, pvca |-> pvca,
                            pvbk |-> pvbk, spvb |-> spvb, spva |-> spva, spvcb |-> spvcb,
                            spvca |-> spvca, spvbk |-> spvbk],
                           Done(Ok(NetOD_calc(pvb, pva, pvcb, pvca, pvbk, spvb, spva,
                                              spvcb, spvca, spvbk)), <<>>))
    /\ UNCHANGED <<tiffs, pkls, images, calib>>

\* NetOD.calc on a raster; the three pooled statistics carry one uncertainty
CallNetODCalcImage ==
    /\ ret = Idle
    /\ \E pvb \in Pvs, pva \in PvRasters, pvcb \in Pvs, pvca \in Pvs, pvbk \in Pvs,
          s \in Sigmas, spva \in Sigmas, spvbk \in Sigmas :
           ret' = Returned("NetOD.calc",
                           [pvb |-> pvb, pva |-> pva, pvcb |-> pvcb, pvca |-> pvca,
                            pvbk |-> pvbk, spvb |-> s, spva |-> spva, spvcb |-> s,
                            spvca |-> s, spvbk |-> spvbk],
                           Done(Ok(NetOD_calc(pvb, pva, pvcb, pvca, pvbk, s, spva, s, s,
                                              spvbk)), <<>>))
    /\ UNCHANGED <<tiffs, pkls, images, calib>>

NextNetOD ==
    \/ CallNetODSimple
    \/ CallNetODCalc
    \/ CallNetODCalcImage
    \/ Discard

SpecNetOD == InitNetOD /\ [][NextNetOD]_vars

(***************************************************************************)
(* Calibration built, used, saved and loaded by a caller, as in the class  *)
(* docstring: calib = Calibration(...); calib.save(); loaded_calib =        *)
(* Calibration.load(...); loaded_calib.dose(0.5).  The caller builds one   *)
(* Calibration and keeps it; what load returns stays in ret.               *)
(***************************************************************************)
MaxPoints == 3

\* doses and netODs of the reference films, cut to a length
Doses(n) == SubSeq(<<0, 42, 264, 822>>, 1, n)

NetODs(n) == SubSeq(<<0, 1, 2, 3>>, 1, n)

Lots == {"00000000", "12345678"}

\* what the solver may end with: no solution, or parameters (a, b, c)
Solutions ==
    {NotFound} \cup
    {Found(<<Rat(x[1], 16), Rat(x[2], 16), Float(x[3])>>) :
        x \in {<<192, 480, 3>>, <<0, 16, 2>>, <<0, 16, -1>>, <<16, 0, 1>>,
                <<-16, 16, 2>>, <<1, 3, 0>>, <<16, 16, 1>>, <<7, 9, 3>>}}

\* netOD arguments of dose
DoseArgs == {Rat(n, 2) : n \in -4..4}

SaveArgs == {None, Str(""), Str("cal.pkl")}

LoadArgs ==
    {"cal.pkl", "legacy.pkl", "other.pkl", "old.pkl", "bad.pkl", "cut.pkl", "missing.pkl", ""}
        \cup {"ebt_calibration_lot" \o lot \o "_RED.pkl" : lot \in Lots}

\* files on disk before the caller saves: a current record, the same record
\* written under the legacy layout, records of other modules, a corrupt file
CalPkls ==
    [f \in {"cal.pkl", "legacy.pkl", "other.pkl", "old.pkl", "bad.pkl", "cut.pkl"} |->
        CASE f = "cal.pkl" -> Pkls["cal.pkl"]
          [] f = "cut.pkl" -> [Pkls["bad.pkl"] EXCEPT !.payload = "empty"]
          [] f = "legacy.pkl" -> [Pkls["cal.pkl"] EXCEPT !.module = "calibration"]
          [] f = "other.pkl" -> [payload |-> "pickle", module |-> "collections",
                                 name |-> "OrderedDict", state |-> [items |-> <<>>]]
          [] f = "old.pkl" -> [Pkls["cal.pkl"] EXCEPT !.module = "radscan.calib"]
          [] OTHER -> Pkls["bad.pkl"]]

InitCal ==
    /\ tiffs = Tiffs
    /\ pkls = CalPkls
    /\ images = [n \in ImageNames |->
                    [RSImage(Tiffs, Str("post.tif"), None).val EXCEPT !.rois = <<<<0, 1, 0, 2>>>>]]
    /\ ret = Idle
    /\ calib = None

\* calib = Calibration(ds, nods, lot=lot)
CallCalibration ==
    /\ ret = Idle
    /\ calib = None
    /\ \E nd \in 0..MaxPoints, nn \in 0..MaxPoints, lot \in Lots, solution \in Solutions :
           /\ ret' = [op |-> "Calibration",
                      args |-> [ds |-> Doses(nd), nods |-> NetODs(nn), lot |-> lot],
                      out |-> Calibration(Doses(nd), NetODs(nn), lot, "", "RED", <<20, 40, 3>>, solution),
                      trace |-> <<>>]
           /\ calib' = IF ret'.out.ok THEN ret'.out.val ELSE calib
    /\ UNCHANGED <<tiffs, pkls, images>>

\* calib.dose(netOD)
CallDose ==
    /\ ret = Idle
    /\ calib # None
    /\ \E netOD \in DoseArgs :
           ret' = [op |-> "Calibration.dose", args |-> [self |-> calib, netOD |-> netOD],
                   out |-> Ok(dose(calib, netOD)), trace |-> <<>>]
    /\ UNCHANGED <<tiffs, pkls, images, calib>>

\* calib.save(filename)
CallSave ==
    /\ ret = Idle
    /\ calib # None
    /\ \E filename \in SaveArgs :
           /\ pkls' = save(calib, pkls, filename)
           /\ ret' = [op |-> "Calibration.save", args |-> [self |-> calib, filename |-> filename],
                      out |-> Ok(None), trace |-> <<>>]
    /\ UNCHANGED <<tiffs, images, calib>>

\* loaded_calib = Calibration.load(filename)
CallLoad ==
    /\ ret = Idle
    /\ \E filename \in LoadArgs :
           ret' = [op |-> "Calibration.load", args |-> [filename |-> filename],
                   out |-> load(pkls, filename), trace |-> <<>>]
    /\ UNCHANGED <<tiffs, pkls, images, calib>>

\* loaded_calib = radscan.calibration.load(filename)
CallCalibrationLoad ==
    /\ ret = Idle
    /\ \E filename \in LoadArgs :
           ret' = [op |-> "load", args |-> [filename |-> filename],
                   out |-> calibration_load(pkls, filename), trace |-> <<>>]
    /\ UNCHANGED <<tiffs, pkls, images, calib>>

NextCal ==
    \/ CallCalibration
    \/ CallDose
    \/ CallSave
    \/ CallLoad
    \/ CallCalibrationLoad
    \/ CallSimpleRoi
    \/ Discard

SpecCal == InitCal /\ [][NextCal]_vars

(***************************************************************************)
(* The workflows as the examples call them (test/example_01.py,            *)
(* example_02.py, example_03.py): with a channel, passed by keyword or as  *)
(* one positional argument more than the function takes.                   *)
(***************************************************************************)
Workflows == {"analyze_simple_roi", "analyze_simple_image", "analyze_roi", "analyze_image"}

Channels == {0, 1, 2}

\* Python binding the arguments of name(..., channel): no workflow has a
\* parameter for it, so the call raises before the body runs
call_with_channel(name, channel) ==
    Done(Raise("TypeError", name \o "() got an unexpected argument", <<>>), <<>>)

CallWithChannel ==
    /\ ret = Idle
    /\ \E name \in Workflows, channel \in Channels :
           ret' = Returned(name,
                           [pre_image |-> "pre", post_image |-> "post",
                            calibration_file |-> None, channel |-> channel],
                           call_with_channel(name, channel))
    /\ UNCHANGED <<tiffs, pkls, images, calib>>

NextExample ==
    \/ SetRois
    \/ CallWithChannel
    \/ Discard

SpecExample == Init /\ [][NextExample]_vars

(***************************************************************************)
(* Properties.                                                             *)
(***************************************************************************)
\* the PixelRegion invariant: 0 <= left < right <= width, 0 <= top < bottom <= height
InBounds(self, roi) ==
    /\ 0 <= roi[1] /\ roi[1] < roi[2] /\ roi[2] <= self.image.shape[2]
    /\ 0 <= roi[3] /\ roi[3] < roi[4] /\ roi[4] <= self.image.shape[1]

AllInBounds(self) == \A i \in 1..Len(self.rois) : InBounds(self, self.rois[i])

MismatchMsg == "Mismatched ROI counts in pre- and post-irradiation images."

\* C1: analyze_simple_roi on images whose region counts differ raises the
\* mismatched-count ValueError before it has called analyze, NetOD or
\* Calibration.load, and returns nothing.
C1_SimpleRoiMismatchRaisesFirst ==
    (/\ ret.op = "analyze_simple_roi"
     /\ Len(images[ret.args.pre_image].rois) # Len(images[ret.args.post_image].rois))
    => /\ ~ret.out.ok
       /\ ret.out.err.type = "ValueError"
       /\ ret.out.err.msg = MismatchMsg
       /\ ret.trace = <<>>

C1_Witness ==
    /\ ret.op = "analyze_simple_roi"
    /\ Len(images[ret.args.pre_image].rois) = 2
    /\ Len(images[ret.args.post_image].rois) = 1
    /\ AllInBounds(images[ret.args.pre_image])
    /\ AllInBounds(images[ret.args.post_image])
    /\ ~ret.out.ok
    /\ ret.trace = <<>>

\* C2: analyze_simple_roi without calibration, on two images with n >= 1
\* regions each, all in bounds, returns a list of n values whose i-th value
\* is the simple NetOD of the mean of pre region i and the mean of post
\* region i.
C2_SimpleRoiPairsByIndex ==
    (/\ ret.op = "analyze_simple_roi"
     /\ ret.args.calibration_file = None
     /\ Len(images[ret.args.pre_image].rois) = Len(images[ret.args.post_image].rois)
     /\ Len(images[ret.args.pre_image].rois) >= 1
     /\ AllInBounds(images[ret.args.pre_image])
     /\ AllInBounds(images[ret.args.post_image]))
    => LET pre == images[ret.args.pre_image]
           post == images[ret.args.post_image]
       IN  /\ ret.out.ok
           /\ ret.out.val.t = "list"
           /\ Len(ret.out.val.v) = Len(pre.rois)
           /\ \A i \in 1..Len(pre.rois) :
                  ret.out.val.v[i] = simple_dn(RoiStat(pre, pre.rois[i], 0).val[1],
                                               RoiStat(post, post.rois[i], 0).val[1])

C2_Witness ==
    /\ ret.op = "analyze_simple_roi"
    /\ ret.args.calibration_file = None
    /\ ret.args.pre_image = "pre"
    /\ ret.args.post_image = "post"
    /\ Len(images["pre"].rois) = 2
    /\ Len(images["post"].rois) = 2
    /\ images["pre"].rois[1] # images["pre"].rois[2]
    /\ ret.out.ok
    /\ Len(ret.out.val.v) = 2
    /\ ret.out.val.v[1] # ret.out.val.v[2]

\* C3: analyze_roi on a main pair, or on a control pair, whose region counts
\* differ raises the mismatched-count error.
C3_RoiMismatchRaises ==
    (/\ ret.op = "analyze_roi"
     /\ \/ Len(images[ret.args.pre_image].rois) # Len(images[ret.args.post_image].rois)
        \/ Len(images[ret.args.control_pre_image].rois)
              # Len(images[ret.args.control_post_image].rois))
    => /\ ~ret.out.ok
       /\ ret.out.err.type = "ValueError"

\* C4: analyze_roi with background_image None and otherwise valid arguments
\* returns, with 0 as the background mean in every NetOD.calc.
C4_RoiNoBackgroundCompletes ==
    (/\ ret.op = "analyze_roi"
     /\ ret.args.background_image = "None"
     /\ ret.args.calibration_file = None
     /\ Len(images[ret.args.pre_image].rois) = Len(images[ret.args.post_image].rois)
     /\ Len(images[ret.args.control_pre_image].rois)
          = Len(images[ret.args.control_post_image].rois)
     /\ \A a \in {ret.args.pre_image, ret.args.post_image,
                   ret.args.control_pre_image, ret.args.control_post_image} :
            Len(images[a].rois) >= 1 /\ AllInBounds(images[a]))
    => LET pre == images[ret.args.pre_image]
           post == images[ret.args.post_image]
           cpre == analyze(images[ret.args.control_pre_image], None, 0, TRUE).val
           cpost == analyze(images[ret.args.control_post_image], None, 0, TRUE).val
       IN  /\ ret.out.ok
           /\ ret.out.val.t = "list"
           /\ Len(ret.out.val.v) = Len(pre.rois)
           /\ \A i \in 1..Len(pre.rois) :
                  ret.out.val.v[i] = calc_dn(RoiStat(pre, pre.rois[i], 0).val[1],
                                             RoiStat(post, post.rois[i], 0).val[1],
                                             cpre[1], cpost[1], Float(0))

\* the outcome of the workflow call recorded in ret, had it been made with cf
\* as its calibration_file
Recall(cf) ==
    LET a == ret.args
    IN  CASE ret.op = "analyze_simple_roi" ->
                analyze_simple_roi(pkls, images[a.pre_image], images[a.post_image], cf).out
          [] ret.op = "analyze_simple_image" ->
                analyze_simple_image(pkls, images[a.pre_image], images[a.post_image], cf).out
          [] ret.op = "analyze_roi" ->
                analyze_roi(pkls, images[a.pre_image], images[a.post_image],
                            images[a.control_pre_image], images[a.control_post_image],
                            Arg(a.background_image), cf).out
          [] ret.op = "analyze_image" ->
                analyze_image(pkls, images[a.pre_image], images[a.post_image],
                              images[a.control_pre_image], images[a.control_post_image],
                              Arg(a.background_image), cf).out

\* a value is an optical density: a float64 that no dose curve was applied to
IsOD(x) == x.k \in {"rat", "log10", "nan", "inf", "ninf"}

\* C5: each workflow returns optical density when called without a
\* calibration file, and when called with a calibration file that loads it
\* returns the dose of each optical density the call without it returns:
\* same outcome kind, same length or shape, element by element.
C5_DoseOfOpticalDensity ==
    (/\ ret.op \in Workflows
     /\ ret.args.calibration_file = Str("cal.pkl"))
    => LET od == Recall(None)
           cal == load(pkls, "cal.pkl").val
       IN  IF ~od.ok \/ od.val = None THEN ret.out = od
           ELSE /\ ret.out.ok
                /\ ret.out.val.t = od.val.t
                /\ IF od.val.t = "list"
                   THEN /\ Len(ret.out.val.v) = Len(od.val.v)
                        /\ \A i \in 1..Len(od.val.v) :
                               /\ IsOD(od.val.v[i])
                               /\ ret.out.val.v[i] = dose(cal, od.val.v[i])
                   ELSE /\ ret.out.val.v.shape = od.val.v.shape
                        /\ \A p \in Positions(od.val.v.shape) :
                               /\ IsOD(od.val.v.px[p])
                               /\ ret.out.val.v.px[p] = dose(cal, od.val.v.px[p])

C5_Witness ==
    /\ ret.op = "analyze_simple_roi"
    /\ ret.args.calibration_file = Str("cal.pkl")
    /\ ret.out.ok
    /\ Len(ret.out.val.v) = 2
    /\ ret.out.val.v[1] = Float(42)
    /\ Recall(None).val.v[1] = Float(1)
    /\ ret.out.val.v[2].k = "func"

\* the region reaches past the raster: the test RSImage.analyze makes
Outside(self, roi) ==
    \/ roi[1] < 0 \/ roi[2] > self.image.shape[2]
    \/ roi[3] < 0 \/ roi[4] > self.image.shape[1]

\* the <<y, x>> positions roi selects
PixelsOf(self, roi) ==
    LET cols == PySlice(roi[1], roi[2], self.image.shape[2])
        rows == PySlice(roi[3], roi[4], self.image.shape[1])
    IN  (rows.lo..(rows.lo + rows.len - 1)) \X (cols.lo..(cols.lo + cols.len - 1))

Disjoint(self, rois) ==
    \A i, j \in 1..Len(rois) :
        i # j => PixelsOf(self, rois[i]) \cap PixelsOf(self, rois[j]) = {}

RECURSIVE Concat(_)
Concat(ss) == IF ss = <<>> THEN <<>> ELSE Head(ss) \o Concat(Tail(ss))

\* the mean over all the samples the regions select together
TrueMean(self, rois, channel) ==
    np_mean(Concat([i \in 1..Len(rois) |-> Crop(self.image, rois[i], channel)]))

\* C6: analyze over a list holding a region that reaches past the raster
\* raises the out-of-bounds ValueError naming such a region, and returns no
\* statistics.
C6_OutOfBoundsNamesRegion ==
    (/\ ret.op = "analyze"
     /\ ret.args.rois # None
     /\ \E i \in 1..Len(ret.args.rois.v) :
            Outside(images[ret.args.self], ret.args.rois.v[i]))
    => /\ ~ret.out.ok
       /\ ret.out.err.msg = "ROI is out of image bounds."
       /\ \E i \in 1..Len(ret.args.rois.v) :
              /\ Outside(images[ret.args.self], ret.args.rois.v[i])
              /\ ret.out.err.roi = ret.args.rois.v[i]

\* what analyze(single=True) returns over k regions: the mean of the k
\* means, the mean of the k standard errors, the least minimum, the
\* greatest maximum
PooledAsSpecified(pooled, st) ==
    LET k == Len(st)
    IN  /\ multiply(pooled[1], Float(k)) = SumF([i \in 1..k |-> st[i][1]])
        /\ IF \E i \in 1..k : st[i][2] = NaN THEN pooled[2] = NaN
           ELSE /\ pooled[2].den = k
                /\ pooled[2].rads = [i \in 1..k |-> st[i][2].rads[1]]
        /\ \E i \in 1..k : pooled[3] = st[i][3]
        /\ \A i \in 1..k : less_equal(pooled[3], st[i][3])
        /\ \E i \in 1..k : pooled[4] = st[i][4]
        /\ \A i \in 1..k : less_equal(st[i][4], pooled[4])

\* C7 (as claimed): analyze(single=True) returns the unweighted statistics,
\* and its mean differs from the mean over all pooled samples whenever
\* regions of different sizes have different means.
C7_PooledDiffersWheneverSizesDiffer ==
    (/\ ret.op = "analyze" /\ ret.args.single /\ ret.args.rois # None /\ ret.out.ok)
    => LET self == images[ret.args.self]
           rois == ret.args.rois.v
           st == [i \in 1..Len(rois) |-> RoiStat(self, rois[i], 0).val]
           size == [i \in 1..Len(rois) |-> Len(Crop(self.image, rois[i], 0))]
       IN  /\ PooledAsSpecified(ret.out.val, st)
           /\ (/\ Disjoint(self, rois)
               /\ \E i, j \in 1..Len(rois) : size[i] # size[j]
               /\ \A i, j \in 1..Len(rois) : size[i] # size[j] => st[i][1] # st[j][1])
              => ret.out.val[1] # TrueMean(self, rois, 0)

\* C7 (amended): analyze(single=True), when it returns, returns the
\* unweighted statistics; over two disjoint regions of different sizes and
\* different means its mean differs from the mean over all pooled samples.
C7_PooledIsMeanOfMeans ==
    (/\ ret.op = "analyze" /\ ret.args.single /\ ret.args.rois # None /\ ret.out.ok)
    => LET self == images[ret.args.self]
           rois == ret.args.rois.v
           st == [i \in 1..Len(rois) |-> RoiStat(self, rois[i], 0).val]
           size == [i \in 1..Len(rois) |-> Len(Crop(self.image, rois[i], 0))]
       IN  /\ PooledAsSpecified(ret.out.val, st)
           /\ (/\ Len(rois) = 2
               /\ Disjoint(self, rois)
               /\ size[1] # size[2]
               /\ st[1][1] # st[2][1])
              => ret.out.val[1] # TrueMean(self, rois, 0)

C7_Witness ==
    /\ ret.op = "analyze" /\ ret.args.single /\ ret.args.rois # None /\ ret.out.ok
    /\ Len(ret.args.rois.v) = 2
    /\ Disjoint(images["scan"], ret.args.rois.v)
    /\ Len(Crop(images["scan"].image, ret.args.rois.v[1], 0)) = 1
    /\ Len(Crop(images["scan"].image, ret.args.rois.v[2], 0)) = 2
    /\ ret.out.val[1] = Rat(5, 4)
    /\ TrueMean(images["scan"], ret.args.rois.v, 0) = Rat(4, 3)

\* C8: analyze(single=True) over one in-bounds region returns the one
\* element analyze(single=False) returns over it: mean, standard error,
\* minimum and maximum.
C8_PooledOfOneRegion ==
    (/\ ret.op = "analyze" /\ ret.args.single /\ ret.args.rois # None
     /\ Len(ret.args.rois.v) = 1
     /\ InBounds(images[ret.args.self], ret.args.rois.v[1]))
    => LET each == analyze(images[ret.args.self], ret.args.rois, ret.args.channel, FALSE)
       IN  /\ each.ok
           /\ Len(each.val) = 1
           /\ ret.out.ok
           /\ \A c \in 1..4 : ret.out.val[c] = each.val[1][c]

C8_Witness ==
    /\ ret.op = "analyze" /\ ret.args.single /\ ret.args.rois # None
    /\ Len(ret.args.rois.v) = 1
    /\ InBounds(images[ret.args.self], ret.args.rois.v[1])
    /\ ret.out.ok
    /\ ret.out.val[2] # NaN
    /\ ret.out.val[1] # ret.out.val[3]
    /\ ret.out.val[3] # ret.out.val[4]

\* C9: RSImage over a list of k >= 1 files of one shape holds the
\* elementwise arithmetic mean of their rasters; when the k rasters are
\* equal it holds that raster, sample for sample.
C9_AverageIsElementwiseMean ==
    (/\ ret.op = "RSImage" /\ ret.args.fn.t = "list"
     /\ Len(ret.args.fn.v) >= 1
     /\ \A i \in 1..Len(ret.args.fn.v) :
            tiffs[ret.args.fn.v[i]].image.shape = tiffs[ret.args.fn.v[1]].image.shape)
    => LET files == ret.args.fn.v
           k == Len(files)
           first == tiffs[files[1]].image
           avg == images["img"].image
       IN  /\ ret.out.ok
           /\ avg.shape = first.shape
           /\ \A p \in Positions(first.shape) :
                  multiply(avg.px[p], Float(k)) = SumF([i \in 1..k |-> tiffs[files[i]].image.px[p]])
           /\ (\A i \in 1..k : tiffs[files[i]].image.px = first.px) => avg.px = first.px

C9_Witness ==
    /\ ret.op = "RSImage" /\ ret.args.fn.t = "list"
    /\ ret.args.fn.v = <<"a.tif", "b.tif">>
    /\ tiffs["a.tif"].image = tiffs["b.tif"].image
    /\ tiffs["a.tif"].image.shape = <<1, 2, 1>>
    /\ tiffs["a.tif"].image.px[<<0, 1, 0>>] = Float(2)
    /\ ret.out.ok
    /\ images["img"].image.px = tiffs["a.tif"].image.px

\* C10: RSImage over a list of files fails, binding no image, if two of the
\* rasters differ in shape; otherwise the metadata of the image is the
\* metadata of the first file.
C10_ShapeMismatchOrFirstMetadata ==
    (/\ ret.op = "RSImage" /\ ret.args.fn.t = "list" /\ Len(ret.args.fn.v) >= 1)
    => LET files == ret.args.fn.v
       IN  IF \E i, j \in 1..Len(files) :
                  tiffs[files[i]].image.shape # tiffs[files[j]].image.shape
           THEN /\ ~ret.out.ok
                /\ ret.out.err.type = "ValueError"
           ELSE /\ ret.out.ok
                /\ images["img"].metadata = tiffs[files[1]].metadata

C10_Witness ==
    /\ ret.op = "RSImage" /\ ret.args.fn.t = "list"
    /\ ret.args.fn.v = <<"b.tif", "a.tif">>
    /\ ret.out.ok
    /\ images["img"].metadata = tiffs["b.tif"].metadata
    /\ images["img"].metadata # tiffs["a.tif"].metadata

\* a failed RSImage(...) leaves the caller's image as it was
C10_WitnessFailure ==
    /\ ret.op = "RSImage" /\ ret.args.fn.t = "list"
    /\ Len(ret.args.fn.v) = 2
    /\ ~ret.out.ok
    /\ images["img"] = None

IsSentinel(x) == x.k \in {"nan", "inf", "ninf"}

Positive(x) == IsRat(x) /\ x.num > 0

\* C11: NetOD.simple(pvb, pva, 0, 0) on scalars pvb, pva > 0 returns a
\* netOD whose power of ten is pvb / pva, and sigma 0; netOD is 0 when
\* pvb = pva.
C11_SimpleZeroUncertainty ==
    (/\ ret.op = "NetOD.simple" /\ ~IsArray(ret.args.pva)
     /\ Positive(ret.args.pvb) /\ Positive(ret.args.pva)
     /\ ret.args.spvb = Float(0) /\ ret.args.spva = Float(0))
    => /\ ret.out.ok
       /\ IsFinite(ret.out.val[1])
       /\ Exp10(ret.out.val[1])
              = Rat(ret.args.pvb.num * ret.args.pva.den, ret.args.pvb.den * ret.args.pva.num)
       /\ ret.out.val[2] = Float(0)
       /\ ret.args.pvb = ret.args.pva => ret.out.val[1] = Float(0)

C11_Witness ==
    /\ ret.op = "NetOD.simple"
    /\ ret.args = [pvb |-> Float(2), pva |-> Float(1), spvb |-> Float(0), spva |-> Float(0)]
    /\ ret.out.val = <<[k |-> "log10", of |-> Float(2)], Float(0)>>

\* C12: for scalars pvb, pva > 0 and any uncertainties, the netOD of
\* NetOD.simple(pvb, pva, spvb, spva) is the negation of the netOD of
\* NetOD.simple(pva, pvb, spva, spvb), and the two sigmas are equal.
C12_SimpleAntisymmetric ==
    (/\ ret.op = "NetOD.simple" /\ ~IsArray(ret.args.pva)
     /\ Positive(ret.args.pvb) /\ Positive(ret.args.pva))
    => LET swapped == NetOD_simple(ret.args.pva, ret.args.pvb, ret.args.spva, ret.args.spvb)
       IN  /\ ret.out.val[1] = negative(swapped[1])
           /\ ret.out.val[2] = swapped[2]

C12_Witness ==
    /\ ret.op = "NetOD.simple"
    /\ ret.args = [pvb |-> Float(2), pva |-> Float(1), spvb |-> Float(0), spva |-> Float(1)]
    /\ ret.out.val = <<[k |-> "log10", of |-> Float(2)], [k |-> "sqrt_ln10", of |-> Float(1)]>>
    /\ NetOD_simple(Float(1), Float(2), Float(1), Float(0))[1] = [k |-> "log10", of |-> Rat(1, 2)]

\* the case of NetOD.calc that C13 is about: scalars, no background, the
\* two control values equal and positive
ReducesToSimple ==
    /\ ret.op = "NetOD.calc" /\ ~IsArray(ret.args.pva)
    /\ Positive(ret.args.pvb) /\ Positive(ret.args.pva)
    /\ ret.args.pvbk = Float(0)
    /\ ret.args.pvcb = ret.args.pvca /\ Positive(ret.args.pvcb)

\* C13 (as claimed): with pvbk = 0 and pvcb = pvca > 0, NetOD.calc returns
\* the pair NetOD.simple(pvb, pva, spvb, spva) returns, whatever spvcb,
\* spvca and spvbk are.
C13_CalcReducesToSimple ==
    ReducesToSimple
    => ret.out.val = NetOD_simple(ret.args.pvb, ret.args.pva, ret.args.spvb, ret.args.spva)

\* C13 (amended): with pvbk = 0 and pvcb = pvca > 0, NetOD.calc returns the
\* netOD NetOD.simple returns, whatever the uncertainties are; its sigma is
\* the sigma of NetOD.simple exactly when spvcb = spvca = 0 and either
\* spvbk = 0 or pvb = pva.
C13_CalcNetODReducesToSimple ==
    ReducesToSimple
    => LET s == NetOD_simple(ret.args.pvb, ret.args.pva, ret.args.spvb, ret.args.spva)
       IN  /\ ret.out.val[1] = s[1]
           /\ ret.out.val[2] = s[2]
              <=> /\ ret.args.spvcb = Float(0)
                  /\ ret.args.spvca = Float(0)
                  /\ ret.args.spvbk = Float(0) \/ ret.args.pvb = ret.args.pva

C13_Witness ==
    /\ ReducesToSimple
    /\ ret.args.pvb = Float(2) /\ ret.args.pva = Float(1) /\ ret.args.pvcb = Float(2)
    /\ ret.args.spvb = Float(1) /\ ret.args.spva = Float(0)
    /\ ret.args.spvcb = Float(0) /\ ret.args.spvca = Float(0) /\ ret.args.spvbk = Float(0)
    /\ ret.out.val = <<[k |-> "log10", of |-> Float(2)], [k |-> "sqrt_ln10", of |-> Rat(1, 4)]>>

\* the same call on the one sample at p of its raster argument
AtPixel(p) ==
    IF ret.op = "NetOD.simple"
    THEN NetOD_simple(ret.args.pvb, ret.args.pva.px[p], ret.args.spvb, ret.args.spva)
    ELSE NetOD_calc(ret.args.pvb, ret.args.pva.px[p], ret.args.pvcb, ret.args.pvca,
                    ret.args.pvbk, ret.args.spvb, ret.args.spva, ret.args.spvcb,
                    ret.args.spvca, ret.args.spvbk)

\* the scalar arguments leave every logarithm and quotient they decide defined
ScalarsValid ==
    IF ret.op = "NetOD.simple" THEN Positive(ret.args.pvb)
    ELSE /\ Positive(subtract(ret.args.pvb, ret.args.pvbk))
         /\ Positive(subtract(ret.args.pvcb, ret.args.pvbk))
         /\ Positive(subtract(ret.args.pvca, ret.args.pvbk))

\* the sample v makes a logarithm's argument or a denominator zero or negative
BadSample(v) ==
    IF ret.op = "NetOD.simple" THEN ~Positive(v)
    ELSE ~Positive(subtract(v, ret.args.pvbk))

\* C14: NetOD.simple and NetOD.calc on a raster pva return, never raising,
\* two rasters that hold at every sample what the same call returns for that
\* sample alone; with valid scalar arguments the netOD is nan or infinite
\* at exactly the samples that make a logarithm's argument or a denominator
\* zero or negative, and netOD and sigma are finite at every other sample.
C14_RasterSentinels ==
    (ret.op \in {"NetOD.simple", "NetOD.calc"} /\ IsArray(ret.args.pva))
    => /\ ret.out.ok
       /\ \A p \in Positions(ret.args.pva.shape) :
              /\ <<ret.out.val[1].px[p], ret.out.val[2].px[p]>> = AtPixel(p)
              /\ ScalarsValid
                 => /\ IsSentinel(ret.out.val[1].px[p]) <=> BadSample(ret.args.pva.px[p])
                    /\ ~BadSample(ret.args.pva.px[p]) => ~IsSentinel(ret.out.val[2].px[p])

C14_Witness ==
    /\ ret.op = "NetOD.calc" /\ IsArray(ret.args.pva)
    /\ ret.args.pvb = Float(2) /\ ret.args.pvbk = Float(1)
    /\ ret.args.pvcb = Float(2) /\ ret.args.pvca = Float(2)
    /\ ret.args.pva.px[<<0, 0, 0>>] = Float(0)
    /\ ret.args.pva.px[<<0, 1, 0>>] = Float(2)
    /\ ret.out.val[1].px[<<0, 0, 0>>] = NaN
    /\ ret.out.val[1].px[<<0, 1, 0>>] = Float(0)

\* C15: Calibration(ds, nods) raises, and leaves the caller without a
\* Calibration, whenever ds and nods differ in length or hold fewer than 3
\* points.
C15_BadArraysFailConstruction ==
    (/\ ret.op = "Calibration"
     /\ \/ Len(ret.args.ds) # Len(ret.args.nods)
        \/ Len(ret.args.ds) < 3
        \/ Len(ret.args.nods) < 3)
    => ~ret.out.ok /\ calib = None

\* a * x + b * x^c
DoseCurve(a, b, c, x) == add(multiply(a, x), multiply(b, power(x, c)))

\* C16: once the caller holds a Calibration, no call (dose, save, load, a
\* workflow that reads a saved calibration) changes any of its attributes;
\* dose changes no file either, and dose(x) returns a*x + b*x^c for the
\* (a, b, c) = fitparams set at construction.
C16_ImmutableAndDosePure ==
    [][/\ calib # None => calib' = calib
       /\ ret'.op = "Calibration.dose"
          => /\ pkls' = pkls
             /\ ret'.out.val = DoseCurve(calib.fitparams[1], calib.fitparams[2],
                                         calib.fitparams[3], ret'.args.netOD)]_vars

C16_Witness ==
    /\ ret.op = "Calibration.dose"
    /\ ret.args.netOD = Rat(1, 2)
    /\ calib.fitparams = <<Float(12), Float(30), Float(3)>>
    /\ calib.lot = "12345678"
    /\ "cal.pkl" \in DOMAIN pkls /\ pkls["cal.pkl"].state.lot = "12345678"
    /\ ret.out.val = Rat(39, 4)

\* x <= y on float64 values that are rational, infinite or nan
float_le(x, y) ==
    IF IsRat(x) /\ IsRat(y) THEN less_equal(x, y)
    ELSE IF x.k = "nan" \/ y.k = "nan" THEN FALSE
    ELSE x.k = "ninf" \/ y.k = "inf"

\* the held Calibration has a >= 0 and b >= 0
NonNegativeAB == calib.fitparams[1].num >= 0 /\ calib.fitparams[2].num >= 0

\* C17 (as claimed): with a >= 0 and b >= 0, dose(x) <= dose(y) for all
\* netOD values x <= y, whatever c and the sign of x and y.
C17_DoseMonotone ==
    (ret.op = "Calibration.dose" /\ NonNegativeAB)
    => \A y \in DoseArgs :
           less_equal(ret.args.netOD, y) => float_le(ret.out.val, dose(calib, y))

\* C17 (amended): with a >= 0, b >= 0 and c >= 0, dose(x) <= dose(y) for
\* all netOD values 0 <= x <= y.
C17_DoseMonotoneOnNonNegative ==
    (/\ ret.op = "Calibration.dose" /\ NonNegativeAB
     /\ calib.fitparams[3].num >= 0
     /\ ret.args.netOD.num >= 0)
    => \A y \in DoseArgs :
           less_equal(ret.args.netOD, y) => float_le(ret.out.val, dose(calib, y))

C17_Witness ==
    /\ ret.op = "Calibration.dose"
    /\ calib.fitparams = <<Float(0), Float(1), Float(2)>>
    /\ ret.args.netOD = Rat(1, 2)
    /\ ret.out.val = Rat(1, 4)
    /\ dose(calib, Float(1)) = Float(1)

\* C18 (as claimed): the fitstr of a fitted Calibration is
\* "Dw = {a:.3f} * netOD + {b:.3f} * netOD^{c:.3f}", with nothing before
\* "Dw".
C18_FitstrStartsWithDw ==
    (ret.op = "Calibration" /\ ret.out.ok)
    => ret.out.val.fitstr
          = "Dw = " \o format_3f(ret.out.val.fitparams[1]) \o " * netOD + "
              \o format_3f(ret.out.val.fitparams[2]) \o " * netOD^"
              \o format_3f(ret.out.val.fitparams[3])

\* C18 (amended): the fitstr of a fitted Calibration is
\* "Fit Dw = {a:.3f} * netOD + {b:.3f} * netOD^{c:.3f}" for its fitparams
\* (a, b, c) and depends on nothing else (0.0625 gives "0.062", 0.1875
\* gives "0.188", -1 gives "-1.000"); dose returns the same value
\* whatever the fitstr is, and analyze_simple_roi returns the same values
\* whatever the fitstr in the calibration file is.
C18_FitstrIsFitDw ==
    /\ (ret.op = "Calibration" /\ ret.out.ok)
       => /\ ret.out.val.fitstr
                = "Fit Dw = " \o format_3f(ret.out.val.fitparams[1]) \o " * netOD + "
                    \o format_3f(ret.out.val.fitparams[2]) \o " * netOD^"
                    \o format_3f(ret.out.val.fitparams[3])
          /\ ret.out.val.fitparams = <<Rat(1, 16), Rat(3, 16), Float(0)>>
             => ret.out.val.fitstr = "Fit Dw = 0.062 * netOD + 0.188 * netOD^0.000"
          /\ ret.out.val.fitparams = <<Float(-1), Float(1), Float(2)>>
             => ret.out.val.fitstr = "Fit Dw = -1.000 * netOD + 1.000 * netOD^2.000"
          /\ \A x \in DoseArgs :
                 dose([ret.out.val EXCEPT !.fitstr = ""], x) = dose(ret.out.val, x)
    /\ (ret.op = "analyze_simple_roi" /\ ret.args.calibration_file = Str("cal.pkl"))
       => analyze_simple_roi([pkls EXCEPT !["cal.pkl"].state.fitstr = ""],
                             images[ret.args.pre_image], images[ret.args.post_image],
                             ret.args.calibration_file).out = ret.out

C18_Witness ==
    /\ ret.op = "Calibration" /\ ret.out.ok
    /\ ret.out.val.fitparams = <<Rat(7, 16), Rat(9, 16), Float(3)>>
    /\ ret.out.val.fitstr = "Fit Dw = 0.438 * netOD + 0.562 * netOD^3.000"

LoadedRecord ==
    /\ ret.op = "Calibration.load"
    /\ ret.args.filename \in DOMAIN pkls
    /\ pkls[ret.args.filename].payload = "pickle"

\* C20: loading a record tagged with the legacy module 'calibration'
\* returns what loading the same record tagged 'radscan.calibration'
\* returns, a radscan.calibration.Calibration with the record's attributes;
\* a record tagged with any other module is resolved under that module as
\* it stands: the object is of that module's class, or the error names
\* that module.
C20_LegacyTagRemapped ==
    LoadedRecord
    => LET f == ret.args.filename
           rec == pkls[f]
       IN  IF rec.module = "calibration"
           THEN /\ ret.out = load([pkls EXCEPT ![f].module = "radscan.calibration"], f)
                /\ ret.out = Ok([class |-> [module |-> "radscan.calibration", name |-> rec.name]]
                                    @@ rec.state)
           ELSE IF ret.out.ok
                THEN ret.out.val.class = [module |-> rec.module, name |-> rec.name]
                ELSE ret.out.err.msg = rec.module

C20_Witness ==
    /\ LoadedRecord
    /\ ret.args.filename = "legacy.pkl"
    /\ pkls["legacy.pkl"].module = "calibration"
    /\ ret.out.ok
    /\ ret.out.val.class = [module |-> "radscan.calibration", name |-> "Calibration"]
    /\ ret.out.val.fitparams = <<Float(12), Float(30), Float(3)>>

\* the file a load call named holds no readable record
Malformed ==
    /\ ret.args.filename \in DOMAIN pkls
    /\ pkls[ret.args.filename].payload \in {"corrupt", "empty"}

C22_WorkflowsSelectChannel ==
    (ret.op \in Workflows /\ "channel" \in DOMAIN ret.args)
    => /\ ret.out.ok \/ ret.out.err.type # "TypeError"
       /\ (ret.op = "analyze_simple_roi" /\ ret.out.ok)
          => \A i \in DOMAIN ret.out.val.v :
                 ret.out.val.v[i]
                    = simple_dn(RoiStat(images["pre"], images["pre"].rois[i],
                                        ret.args.channel).val[1],
                                RoiStat(images["post"], images["post"].rois[i],
                                        ret.args.channel).val[1])

\* C23: analyze_simple_image on a post raster of height H, width W and C
\* channels returns a 2-D H x W array: one optical density per pixel.
C23_SimpleImageIsTwoDimensional ==
    (ret.op = "analyze_simple_image" /\ ret.out.ok)
    => /\ ret.out.val.t = "ndarray"
       /\ ret.out.val.v.shape = SubSeq(images[ret.args.post_image].image.shape, 1, 2)

FreshImage(n) ==
    [(IF n = "pre"
      THEN RSImage(Tiffs, List(<<"pre_1.tif", "pre_2.tif">>), None).val
      ELSE RSImage(Tiffs, Str("post.tif"), None).val) EXCEPT !.rois = images[n].rois]

FreshArg(name) == IF name = "None" THEN None ELSE FreshImage(name)

\* the outcome of the workflow call recorded in ret, had it been the only
\* call ever made
Alone ==
    LET a == ret.args
    IN  CASE ret.op = "analyze_simple_roi" ->
                analyze_simple_roi(Pkls, FreshImage(a.pre_image), FreshImage(a.post_image),
                                   a.calibration_file).out
          [] ret.op = "analyze_simple_image" ->
                analyze_simple_image(Pkls, FreshImage(a.pre_image), FreshImage(a.post_image),
                                     a.calibration_file).out
          [] ret.op = "analyze_roi" ->
                analyze_roi(Pkls, FreshImage(a.pre_image), FreshImage(a.post_image),
                            FreshImage(a.control_pre_image), FreshImage(a.control_post_image),
                            FreshArg(a.background_image), a.calibration_file).out
          [] ret.op = "analyze_image" ->
                analyze_image(Pkls, FreshImage(a.pre_image), FreshImage(a.post_image),
                              FreshImage(a.control_pre_image), FreshImage(a.control_post_image),
                              FreshArg(a.background_image), a.calibration_file).out

CalcCalls == {i \in DOMAIN ret.trace : ret.trace[i].e = "NetOD.calc"}

\* C26: analyze_image gives NetOD.calc 0 as the uncertainty of the post
\* image; without a background image it gives 0 as the background mean and
\* 0 as its standard error, and the call goes on to NetOD.calc and, when no
\* calibration file is named, completes; with a background image it gives
\* that image's pooled mean and pooled standard error.
C26_ImageCalcArguments ==
    ret.op = "analyze_image"
    => /\ \A i \in CalcCalls :
            /\ ret.trace[i].args.spva = Float(0)
            /\ ret.args.background_image = "None"
               => /\ ret.trace[i].args.pvbk = Float(0)
                  /\ ret.trace[i].args.spvbk = Float(0)
            /\ ret.args.background_image # "None"
               => /\ ret.trace[i].args.pvbk
                       = analyze(images[ret.args.background_image], None, 0, TRUE).val[1]
                  /\ ret.trace[i].args.spvbk
                       = analyze(images[ret.args.background_image], None, 0, TRUE).val[2]
       /\ (/\ ret.args.background_image = "None"
           /\ analyze(images[ret.args.pre_image], None, 0, TRUE).ok
           /\ analyze(images[ret.args.control_pre_image], None, 0, TRUE).ok
           /\ analyze(images[ret.args.control_post_image], None, 0, TRUE).ok)
          => /\ CalcCalls # {}
             /\ ret.args.calibration_file = None => ret.out.ok

\* a completed whole-image call without a background image whose pooled pre
\* statistics are not zero
C26_Witness ==
    /\ ret.op = "analyze_image"
    /\ ret.args.background_image = "None"
    /\ ret.out.ok
    /\ \E i \in CalcCalls :
           /\ ret.trace[i].args.pvbk = Float(0)
           /\ ret.trace[i].args.pvb # Float(0)
           /\ ret.trace[i].args.spvb # Float(0)

\* C27: every region analyze returns a statistic for has
\* 0 <= left < right <= width and 0 <= top < bottom <= height, and a list
\* holding a region that has not (left >= right, top >= bottom and a
\* negative right or bottom edge included) is rejected with the
\* out-of-bounds ValueError.
C27_RegionInvariantEnforced ==
    (ret.op = "analyze" /\ ret.args.rois # None)
    => /\ ret.out.ok
          => \A i \in 1..Len(ret.args.rois.v) :
                 InBounds(images[ret.args.self], ret.args.rois.v[i])
       /\ (\E i \in 1..Len(ret.args.rois.v) :
               ~InBounds(images[ret.args.self], ret.args.rois.v[i]))
          => /\ ~ret.out.ok
             /\ ret.out.err.msg = "ROI is out of image bounds."

\* C28: analyze_image on control images whose region counts differ raises
\* the mismatched-count ValueError before it has called analyze on any
\* image, and pools neither control image.
C28_ImageChecksControlCounts ==
    (/\ ret.op = "analyze_image"
     /\ RoiCountsDiffer(images[ret.args.control_pre_image],
                        images[ret.args.control_post_image]))
    => /\ ~ret.out.ok
       /\ ret.out.err.type = "ValueError"
       /\ ret.out.err.msg = MismatchMsg
       /\ ret.trace = <<>>

\* the positions of the trace of the call recorded in ret, up to last, that
\* hold a call named in names
CallsUpTo(last, names) == {j \in 1..last : ret.trace[j].e \in names}

\* the analyze calls the workflow recorded in ret makes when none fails
AnalyzeCallsDue ==
    CASE ret.op = "analyze_simple_roi" -> 2
      [] ret.op = "analyze_simple_image" -> 1
      [] ret.op = "analyze_roi" -> 5
      [] ret.op = "analyze_image" -> IF ret.args.background_image = "None" THEN 3 ELSE 4

\* the NetOD calls it makes: one per region pair, or one on the raster
NetODCallsDue ==
    IF ret.op \in {"analyze_simple_roi", "analyze_roi"}
    THEN Len(images[ret.args.pre_image].rois)
    ELSE 1

\* C29: in every workflow the call of Calibration.load is the last call
\* made, after every analyze call and every NetOD call of the workflow has
\* completed; when the file is missing or malformed the outcome of the
\* workflow is the error of that load, so neither the optical densities
\* already computed nor a partial list of doses is returned.
C29_CalibrationLoadedLast ==
    ret.op \in Workflows
    => /\ \A i \in CallsUpTo(Len(ret.trace), {"Calibration.load"}) :
              /\ i = Len(ret.trace)
              /\ Cardinality(CallsUpTo(i - 1, {"analyze"})) = AnalyzeCallsDue
              /\ Cardinality(CallsUpTo(i - 1, {"NetOD.simple", "NetOD.calc"}))
                     = NetODCallsDue
              /\ ~load(pkls, ret.args.calibration_file.v).ok
                 => ret.out = load(pkls, ret.args.calibration_file.v)
       /\ (ret.args.calibration_file \in {Str("missing.pkl"), Str("bad.pkl")})
          => ~ret.out.ok \/ ret.out.val = None

\* a region workflow that computed two optical densities and then failed
\* to find its calibration file
C29_Witness ==
    /\ ret.op = "analyze_simple_roi"
    /\ ret.args.calibration_file = Str("missing.pkl")
    /\ Cardinality(CallsUpTo(Len(ret.trace), {"NetOD.simple"})) = 2
    /\ ret.trace[Len(ret.trace)].e = "Calibration.load"
    /\ ~ret.out.ok
    /\ ret.out.err.type = "FileNotFoundError"

NoRoisMsg == "No ROIs provided or available in self.rois."

\* C30: analyze raises the no-regions ValueError whenever the list it is to
\* go over is empty, be it an empty rois argument or, with rois None, an
\* empty self.rois; analyze_simple_roi on two images without regions passes
\* its count comparison, calls analyze on the pre image and fails with that
\* error instead of returning an empty list.
C30_EmptyRegionListRaises ==
    /\ (/\ ret.op = "analyze"
        /\ (IF ret.args.rois # None THEN ret.args.rois.v
            ELSE images[ret.args.self].rois) = <<>>)
       => /\ ~ret.out.ok
          /\ ret.out.err.type = "ValueError"
          /\ ret.out.err.msg = NoRoisMsg
    /\ (/\ ret.op = "analyze_simple_roi"
        /\ images[ret.args.pre_image].rois = <<>>
        /\ images[ret.args.post_image].rois = <<>>)
       => /\ ~ret.out.ok
          /\ ret.out.err.type = "ValueError"
          /\ ret.out.err.msg = NoRoisMsg
          /\ ret.trace = <<Ev("analyze", "pre_image")>>

\* analyze failed on an empty rois argument although the image has regions
\* of its own
C30_Witness ==
    /\ ret.op = "analyze"
    /\ ret.args.rois = List(<<>>)
    /\ images[ret.args.self].rois # <<>>
    /\ ~ret.out.ok
    /\ ret.out.err.msg = NoRoisMsg

====
